---- MODULE Spec2Model ----
(***************************************************************************)
(* Log parsers of arm-systemready:                                         *)
(*   pipeline A  common/log_parser/bbr/fwts/logs_to_xml.py  parse_fwts_log *)
(*   pipeline B  common/log_parser/bsa/logs_to_json.py      main           *)
(* Both are single-threaded line-by-line scanners.  One action is one      *)
(* iteration of the scanning loop (the whole loop body) or the code that   *)
(* runs after the loop.  Lines are text; the substring tests, splits and   *)
(* regular expressions of the code are computed on the characters.         *)
(***************************************************************************)
EXTENDS Integers, Sequences, FiniteSets, TLC

VARIABLES
    \* ---- pipeline A: parse_fwts_log
    pcA,              \* "prescan" | "scan" | "done" | "TypeError"
    log_data,         \* preamble lines of the log not yet walked by the main scan
    main_tests,       \* suite tokens harvested by the pre-scan
    results,          \* suites already closed
    current_test,     \* the open suite, or None
    current_subtest,  \* the open subtest, or None
    lineA,            \* the line of the iteration that ran last
    nA,               \* body lines read so far
    retA,             \* the returned dictionary, None before return
    \* ---- pipeline B: main
    pcB,              \* "scan" | "done"
    processing,
    in_test,
    suite_name,
    test_number,
    test_name,
    test_description,
    result,
    rules,
    result_data,            \* insertion-ordered dict: suite -> list of subtests
    suite_summary,          \* running totals of the run
    test_numbers_per_suite, \* suite -> set of ids already accepted
    active_tests,           \* insertion-ordered dict: id -> [suite, desc]
    lineB,                  \* the raw line of the iteration that ran last
    fileB,                  \* index of the input file being walked
    nB,                     \* lines read so far, over all files
    formatted_result        \* the document written at the end, None before

varsA == <<pcA, log_data, main_tests, results, current_test, current_subtest,
           lineA, nA, retA>>
varsB == <<pcB, processing, in_test, suite_name, test_number, test_name,
           test_description, result, rules, result_data, suite_summary,
           test_numbers_per_suite, active_tests, lineB, fileB, nB,
           formatted_result>>
vars == <<varsA, varsB>>

\* Python's None.
None == [none |-> TRUE]

(***************************************************************************)
(* Bounds of the model.                                                    *)
(***************************************************************************)
\* body lines pipeline A reads after the preamble
MaxLinesA == 4
\* lines pipeline B reads, over all files
MaxLinesB == 4
\* classification lines pipeline B reads, over all files
MaxClassLinesB == 3
\* pending-subtest lines pipeline B reads, over all files
MaxRulesLinesB == 5
\* opening and closing lines pipeline B reads, over all files
MaxFileLinesB == 7

(***************************************************************************)
(* Text.  A string is a sequence of characters; Chr(s, i) is s[i-1].       *)
(***************************************************************************)
Chr(s, i) == SubSeq(s, i, i)

Min(S) == CHOOSE x \in S : \A y \in S : x <= y

Max(S) == CHOOSE x \in S : \A y \in S : x >= y

\* str.strip() / regex \s
Whitespace == {" ", "\t", "\n", "\r", "\f"}

\* regex \d
Digits == {"0", "1", "2", "3", "4", "5", "6", "7", "8", "9"}

UpperLetters == {"A", "B", "C", "D", "E", "F", "G", "H", "I", "J", "K", "L", "M",
                 "N", "O", "P", "Q", "R", "S", "T", "U", "V", "W", "X", "Y", "Z"}

LowerLetters == {"a", "b", "c", "d", "e", "f", "g", "h", "i", "j", "k", "l", "m",
                 "n", "o", "p", "q", "r", "s", "t", "u", "v", "w", "x", "y", "z"}

\* regex \w
WordChars == UpperLetters \cup LowerLetters \cup Digits \cup {"_"}

\* p occurs in s at index i
At(s, i, p) == i >= 1 /\ i + Len(p) - 1 <= Len(s) /\ SubSeq(s, i, i + Len(p) - 1) = p

\* the indices at which p occurs in s
Occurrences(s, p) == {i \in 1..(Len(s) - Len(p) + 1) : At(s, i, p)}

\* Python `p in s`
In(p, s) == Occurrences(s, p) # {}

\* Python s.startswith(p)
StartsWith(s, p) == At(s, 1, p)

\* s[i-1:]
From(s, i) == IF i > Len(s) THEN "" ELSE SubSeq(s, i, Len(s))

\* Python s.strip()
Strip(s) ==
    LET keep == {i \in 1..Len(s) : Chr(s, i) \notin Whitespace}
    IN  IF keep = {} THEN "" ELSE SubSeq(s, Min(keep), Max(keep))

\* Python s.split(sep, 1)[1], for s holding sep
AfterFirst(s, sep) == From(s, Min(Occurrences(s, sep)) + Len(sep))

\* Python s.split(sep)[0]
SplitHead(s, sep) ==
    IF In(sep, s) THEN SubSeq(s, 1, Min(Occurrences(s, sep)) - 1) ELSE s

\* Python s.split(sep)[1], for s holding sep: the text between the first
\* occurrence of sep and the next one after it
SplitSecond(s, sep) == SplitHead(AfterFirst(s, sep), sep)

\* index of the first character of s at or after i that is not in class C
\* (Len(s) + 1 when the run reaches the end): the end of a greedy C* at i
RunEnd(s, i, C) ==
    LET stops == {j \in i..Len(s) : Chr(s, j) \notin C}
    IN  IF stops = {} THEN Len(s) + 1 ELSE Min(stops)

\* the same for the complement class: the end of a greedy [^C]* at i
RunEndNot(s, i, C) ==
    LET stops == {j \in i..Len(s) : Chr(s, j) \in C}
    IN  IF stops = {} THEN Len(s) + 1 ELSE Min(stops)

\* re.findall(r'\b(\w+)\b', s): the maximal runs of word characters, in order
RECURSIVE WordsFrom(_, _)
WordsFrom(s, i) ==
    IF i > Len(s) THEN <<>>
    ELSE IF Chr(s, i) \notin WordChars THEN WordsFrom(s, i + 1)
    ELSE LET e == RunEnd(s, i, WordChars)
         IN  <<SubSeq(s, i, e - 1)>> \o WordsFrom(s, e)

FindAllWords(s) == WordsFrom(s, 1)

\* re.match(r'^[=\-]+$', s)
IsSeparator(s) == Len(s) >= 1 /\ RunEnd(s, 1, {"=", "-"}) = Len(s) + 1

(***************************************************************************)
(* Pipeline A: parse_fwts_log.                                             *)
(***************************************************************************)

\* The body lines a log is drawn from (readlines() keeps the line break).
LinesA == {
    "acpi: ACPI table tests\n",
    "uefi: UEFI runtime tests\n",
    "acpi: SKIPPED: not supported\n",
    "Test 1 of 3: Check ACPI Tables\n",
    "Test 2 of 3: Handle Aborted transfer\n",
    "PASSED: Table found\n",
    "FAILED [HIGH] BadChecksum\n",
    "SKIPPED: no table\n",
    "WARNING: Test 1, PASSED earlier\n",
    "Test ABORTED: out of memory\n",
    "Aborted early\n",
     "uefi: Aborted by user\n",
    "some other text\n" }

\* The preambles a log is drawn from: no banner at all, or a "Running tests:"
\* banner, its continuation lines and the separator line that ends the
\* pre-scan.  No body line holds the banner, so the pre-scan of the whole log
\* is the pre-scan of its preamble.
HeadersA == {
    <<>>,
    <<"Running tests: acpi\n", "====\n">>,
    <<"Running tests: acpi uefi\n", "----\n">>,
    <<"Running tests: acpi\n", " uefi\n", "====\n">> }

\* The pre-scan loop over the lines from index i on.
RECURSIVE PreScanFrom(_, _, _, _)
PreScanFrom(lines, i, running_tests_started, found) ==
    IF i > Len(lines) THEN found
    ELSE LET line == lines[i]
         IN  IF In("Running tests:", line)
             THEN PreScanFrom(lines, i + 1, TRUE,
                      found \o FindAllWords(Strip(AfterFirst(line, ":"))))
             ELSE IF running_tests_started /\ ~IsSeparator(Strip(line))
             THEN PreScanFrom(lines, i + 1, running_tests_started,
                      found \o FindAllWords(Strip(line)))
             ELSE IF running_tests_started /\ IsSeparator(Strip(line))
             THEN found
             ELSE PreScanFrom(lines, i + 1, running_tests_started, found)

PreScan(lines) == PreScanFrom(lines, 1, FALSE, <<>>)

ResultKeys == <<"PASSED", "FAILED", "ABORTED", "SKIPPED", "WARNINGS">>

\* a fresh sub_test_result
NewSubResult(aborted, skipped) ==
    [PASSED |-> 0, FAILED |-> 0, ABORTED |-> aborted, SKIPPED |-> skipped,
     WARNINGS |-> 0, pass_reasons |-> <<>>, fail_reasons |-> <<>>,
     abort_reasons |-> <<>>, skip_reasons |-> <<>>, warning_reasons |-> <<>>]

NewSubtest(number, description, aborted, skipped) ==
    [sub_Test_Number |-> number, sub_Test_Description |-> description,
     sub_test_result |-> NewSubResult(aborted, skipped)]

ZeroSummaryA ==
    [total_PASSED |-> 0, total_FAILED |-> 0, total_ABORTED |-> 0,
     total_SKIPPED |-> 0, total_WARNINGS |-> 0]

\* summary[f"total_{key}"] += r[key], for the five keys
AddCounts(summary, r) ==
    [total_PASSED   |-> summary.total_PASSED + r.PASSED,
     total_FAILED   |-> summary.total_FAILED + r.FAILED,
     total_ABORTED  |-> summary.total_ABORTED + r.ABORTED,
     total_SKIPPED  |-> summary.total_SKIPPED + r.SKIPPED,
     total_WARNINGS |-> summary.total_WARNINGS + r.WARNINGS]

RECURSIVE AddSubtests(_, _)
AddSubtests(summary, subtests) ==
    IF subtests = <<>> THEN summary
    ELSE AddSubtests(AddCounts(summary, Head(subtests).sub_test_result),
                     Tail(subtests))

\* the summation with the last listed subtest left out
UpdateSuiteSummaryDropLast(test) ==
    [test EXCEPT !.test_suite_summary =
        AddSubtests(@, IF test.subtests = <<>> THEN <<>>
                       ELSE SubSeq(test.subtests, 1, Len(test.subtests) - 1))]

\* "Update the test_suite_summary based on subtests"
UpdateSuiteSummary(test) ==
    [test EXCEPT !.test_suite_summary = AddSubtests(@, test.subtests)]

\* The parser's local state threaded through one loop iteration; raised is
\* TRUE once a statement has raised TypeError ('NoneType' is not subscriptable).
ParserA(res, test, subtest) ==
    [results |-> res, current_test |-> test, current_subtest |-> subtest,
     raised |-> FALSE]

\* a flush that closes the suite without its open subtest
SavePreviousTestDropOpen(P) ==
    IF P.current_test = None THEN P
    ELSE [P EXCEPT !.results = Append(@, UpdateSuiteSummary(P.current_test)),
                   !.current_subtest = None]

\* "Save the previous test"
SavePreviousTest(P) ==
    IF P.current_test = None THEN P
    ELSE LET withSub ==
                 IF P.current_subtest # None
                 THEN [P.current_test EXCEPT
                          !.subtests = Append(@, P.current_subtest)]
                 ELSE P.current_test
         IN  [P EXCEPT !.results = Append(@, UpdateSuiteSummary(withSub)),
                       !.current_subtest = None]

\* a suite start that takes up again the flushed suite of the same name
StartMainTestMerging(P, line, main_test) ==
    LET same == {i \in 1..Len(P.results) : P.results[i].Test_suite = main_test}
    IN  IF same = {}
        THEN [P EXCEPT
                 !.current_test =
                     [Test_suite |-> main_test,
                      Test_suite_Description |->
                          IF In(":", line) THEN Strip(AfterFirst(line, ":"))
                          ELSE "No description",
                      subtests |-> <<>>,
                      test_suite_summary |-> ZeroSummaryA],
                 !.current_subtest = None]
        ELSE [P EXCEPT
                 !.current_test =
                     [P.results[Min(same)] EXCEPT
                         !.test_suite_summary = ZeroSummaryA],
                 !.results =
                     SubSeq(P.results, 1, Min(same) - 1)
                     \o SubSeq(P.results, Min(same) + 1, Len(P.results)),
                 !.current_subtest = None]

\* "Start a new main test"
StartMainTest(P, line, main_test) ==
    [P EXCEPT
        !.current_test =
            [Test_suite |-> main_test,
             Test_suite_Description |->
                 IF In(":", line) THEN Strip(AfterFirst(line, ":"))
                 ELSE "No description",
             subtests |-> <<>>,
             test_suite_summary |-> ZeroSummaryA],
        !.current_subtest = None]

\* "Detect the start of a new main test": the first token of main_tests the
\* line starts with, followed by ":".
DetectMainTest(P, line) ==
    LET hits == {i \in 1..Len(main_tests) : StartsWith(line, main_tests[i] \o ":")}
    IN  IF hits = {} THEN P
        ELSE StartMainTest(SavePreviousTest(P), line, main_tests[Min(hits)])

NoMatch == [ok |-> FALSE]

\* re.match(r"Test (\d+) of (\d+): (.+)", line)
SubtestMatch(line) ==
    IF ~StartsWith(line, "Test ") THEN NoMatch
    ELSE LET a == 6
             b == RunEnd(line, a, Digits)
         IN  IF b = a \/ ~At(line, b, " of ") THEN NoMatch
             ELSE LET c == b + 4
                      d == RunEnd(line, c, Digits)
                  IN  IF d = c \/ ~At(line, d, ": ") THEN NoMatch
                      ELSE LET e == d + 2
                               f == RunEndNot(line, e, {"\n"})
                           IN  IF f = e THEN NoMatch
                               ELSE [ok |-> TRUE,
                                     g1 |-> SubSeq(line, a, b - 1),
                                     g2 |-> SubSeq(line, c, d - 1),
                                     g3 |-> SubSeq(line, e, f - 1)]

\* "Detect subtest start, number, and description"
SubtestStart(P, m) ==
    IF P.current_subtest # None /\ P.current_test = None
    THEN [P EXCEPT !.raised = TRUE]
    ELSE [P EXCEPT
            !.current_test =
                IF P.current_subtest # None
                THEN [@ EXCEPT !.subtests = Append(@, P.current_subtest)]
                ELSE @,
            !.current_subtest =
                NewSubtest(m.g1 \o " of " \o m.g2, Strip(m.g3), 0, 0)]

\* "Check for test abortion"
IsAbortLine(line) == In("Aborted", line) \/ In("ABORTED", line)

\* an abort line that synthesizes a subtest even when one is open
AbortLineAlwaysNew(P, line) ==
    [P EXCEPT !.current_subtest =
        [NewSubtest("Test 1 of 1", "Aborted test", 1, 0) EXCEPT
            !.sub_test_result.abort_reasons = <<Strip(line)>>]]

AbortLine(P, line) ==
    LET sub == IF P.current_subtest = None
               THEN NewSubtest("Test 1 of 1", "Aborted test", 1, 0)
               ELSE P.current_subtest
    IN  [P EXCEPT !.current_subtest =
            [sub EXCEPT !.sub_test_result.abort_reasons = Append(@, Strip(line))]]

\* line.split(kw + ":")[1].strip() if kw + ":" in line else "No specific reason"
ReasonText(line, kw) ==
    IF In(kw \o ":", line) THEN Strip(SplitSecond(line, kw \o ":"))
    ELSE "No specific reason"

\* an outcome capture that tests every keyword instead of stopping at the first
OutcomeLineEveryKeyword(P, line) ==
    LET r == P.current_subtest.sub_test_result
        r1 == IF In("PASSED", line)
              THEN [r EXCEPT !.PASSED = @ + 1,
                             !.pass_reasons = Append(@, ReasonText(line, "PASSED"))]
              ELSE r
        r2 == IF In("FAILED", line)
              THEN [r1 EXCEPT !.FAILED = @ + 1,
                              !.fail_reasons = Append(@, ReasonText(line, "FAILED"))]
              ELSE r1
        r3 == IF In("SKIPPED", line)
              THEN [r2 EXCEPT !.SKIPPED = @ + 1,
                              !.skip_reasons = Append(@, ReasonText(line, "SKIPPED"))]
              ELSE r2
        r4 == IF In("WARNING", line)
              THEN [r3 EXCEPT !.WARNINGS = @ + 1,
                              !.warning_reasons = Append(@, ReasonText(line, "WARNING"))]
              ELSE r3
    IN  [P EXCEPT !.current_subtest.sub_test_result = r4]

\* an outcome handler that records a reason only when the keyword is followed
\* by a colon
OutcomeLineReasonAfterColon(P, line) ==
    LET r == P.current_subtest.sub_test_result
        r2 == IF In("PASSED", line)
              THEN [r EXCEPT !.PASSED = @ + 1,
                             !.pass_reasons =
                                 IF In("PASSED:", line)
                                 THEN Append(@, ReasonText(line, "PASSED"))
                                 ELSE @]
              ELSE IF In("FAILED", line)
              THEN [r EXCEPT !.FAILED = @ + 1,
                             !.fail_reasons =
                                 IF In("FAILED:", line)
                                 THEN Append(@, ReasonText(line, "FAILED"))
                                 ELSE @]
              ELSE IF In("SKIPPED", line)
              THEN [r EXCEPT !.SKIPPED = @ + 1,
                             !.skip_reasons =
                                 IF In("SKIPPED:", line)
                                 THEN Append(@, ReasonText(line, "SKIPPED"))
                                 ELSE @]
              ELSE IF In("WARNING", line)
              THEN [r EXCEPT !.WARNINGS = @ + 1,
                             !.warning_reasons =
                                 IF In("WARNING:", line)
                                 THEN Append(@, ReasonText(line, "WARNING"))
                                 ELSE @]
              ELSE r
    IN  [P EXCEPT !.current_subtest.sub_test_result = r2]

\* "Capture pass/fail/abort/skip/warning info", with a subtest open
OutcomeLine(P, line) ==
    LET r == P.current_subtest.sub_test_result
        r2 == IF In("PASSED", line)
              THEN [r EXCEPT !.PASSED = @ + 1,
                             !.pass_reasons = Append(@, ReasonText(line, "PASSED"))]
              ELSE IF In("FAILED", line)
              THEN [r EXCEPT !.FAILED = @ + 1,
                             !.fail_reasons = Append(@, ReasonText(line, "FAILED"))]
              ELSE IF In("SKIPPED", line)
              THEN [r EXCEPT !.SKIPPED = @ + 1,
                             !.skip_reasons = Append(@, ReasonText(line, "SKIPPED"))]
              ELSE IF In("WARNING", line)
              THEN [r EXCEPT !.WARNINGS = @ + 1,
                             !.warning_reasons = Append(@, ReasonText(line, "WARNING"))]
              ELSE r
    IN  [P EXCEPT !.current_subtest.sub_test_result = r2]

\* an orphan SKIPPED line whose synthesized subtest stays open
OrphanLineKeepOpen(P, line) ==
    IF ~In("SKIPPED", line) THEN P
    ELSE IF P.current_test = None THEN [P EXCEPT !.raised = TRUE]
    ELSE LET sub == NewSubtest("Test 1 of 1", "Skipped test", 0, 1)
             done == [sub EXCEPT !.sub_test_result.skip_reasons =
                                   Append(@, ReasonText(line, "SKIPPED"))]
         IN  [P EXCEPT !.current_test.subtests = Append(@, done),
                       !.current_subtest = done]

\* "Handle SKIPPED when no current_subtest exists"
OrphanLine(P, line) ==
    IF ~In("SKIPPED", line) THEN P
    ELSE IF P.current_test = None THEN [P EXCEPT !.raised = TRUE]
    ELSE LET sub == NewSubtest("Test 1 of 1", "Skipped test", 0, 1)
             done == [sub EXCEPT !.sub_test_result.skip_reasons =
                                   Append(@, ReasonText(line, "SKIPPED"))]
         IN  [P EXCEPT !.current_test.subtests = Append(@, done),
                       !.current_subtest = None]

\* One iteration of "Process the log data".
LoopBodyA(P0, line) ==
    LET P == DetectMainTest(P0, line)
        m == SubtestMatch(line)
    IN  IF m.ok THEN SubtestStart(P, m)
        ELSE IF IsAbortLine(line) THEN AbortLine(P, line)
        ELSE IF P.current_subtest # None THEN OutcomeLine(P, line)
        ELSE OrphanLine(P, line)

\* "Build overall suite_summary"
RECURSIVE AddSuites(_, _)
AddSuites(summary, tests) ==
    IF tests = <<>> THEN summary
    ELSE LET t == Head(tests).test_suite_summary
         IN  AddSuites([total_PASSED   |-> summary.total_PASSED + t.total_PASSED,
                        total_FAILED   |-> summary.total_FAILED + t.total_FAILED,
                        total_ABORTED  |-> summary.total_ABORTED + t.total_ABORTED,
                        total_SKIPPED  |-> summary.total_SKIPPED + t.total_SKIPPED,
                        total_WARNINGS |-> summary.total_WARNINGS + t.total_WARNINGS],
                       Tail(tests))

\* "Save the final test/subtest after processing all lines"
SaveFinal(P) ==
    IF P.current_subtest # None /\ P.current_test = None
    THEN [P EXCEPT !.raised = TRUE]
    ELSE IF P.current_test = None THEN P
    ELSE LET withSub ==
                 IF P.current_subtest # None
                 THEN [P.current_test EXCEPT
                          !.subtests = Append(@, P.current_subtest)]
                 ELSE P.current_test
         IN  [P EXCEPT !.results = Append(@, UpdateSuiteSummary(withSub)),
                       !.current_test = UpdateSuiteSummary(withSub),
                       !.current_subtest = P.current_subtest]

InitA ==
    /\ pcA = "prescan"
    /\ log_data = <<>>
    /\ main_tests = <<>>
    /\ results = <<>>
    /\ current_test = None
    /\ current_subtest = None
    /\ lineA = ""
    /\ nA = 0
    /\ retA = None

\* The file is read and the pre-scan harvests main_tests.
PreScanA ==
    /\ pcA = "prescan"
    /\ \E hdr \in HeadersA :
          /\ log_data' = hdr
          /\ main_tests' = PreScan(hdr)
    /\ pcA' = "scan"
    /\ UNCHANGED <<results, current_test, current_subtest, lineA, nA, retA>>
    /\ UNCHANGED varsB

\* One iteration of the main scan: the next preamble line, then body lines.
ScanLineA ==
    /\ pcA = "scan"
    /\ \E line \in (IF log_data # <<>> THEN {Head(log_data)}
                    ELSE IF nA < MaxLinesA THEN LinesA ELSE {}) :
          LET P == LoopBodyA(ParserA(results, current_test, current_subtest), line)
          IN  /\ lineA' = line
              /\ results' = P.results
              /\ current_test' = P.current_test
              /\ current_subtest' = P.current_subtest
              /\ pcA' = IF P.raised THEN "TypeError" ELSE "scan"
    /\ log_data' = IF log_data # <<>> THEN Tail(log_data) ELSE log_data
    /\ nA' = IF log_data # <<>> THEN nA ELSE nA + 1
    /\ UNCHANGED <<main_tests, retA>>
    /\ UNCHANGED varsB

\* End of input: the final flush, the run summary and the return.
ReturnA ==
    /\ pcA = "scan"
    /\ log_data = <<>>
    /\ LET P == SaveFinal(ParserA(results, current_test, current_subtest))
       IN  /\ results' = P.results
           /\ current_test' = P.current_test
           /\ pcA' = IF P.raised THEN "TypeError" ELSE "done"
           /\ retA' = IF P.raised THEN None
                      ELSE [test_results |-> P.results,
                            suite_summary |-> AddSuites(ZeroSummaryA, P.results)]
    /\ UNCHANGED <<log_data, main_tests, current_subtest, lineA, nA>>
    /\ UNCHANGED varsB

NextA == PreScanA \/ ScanLineA \/ ReturnA

(***************************************************************************)
(* Pipeline A: dict_to_junit_xml.  The element tree before serialization:  *)
(* an element is a record of its tag, its attributes and its children.     *)
(***************************************************************************)
\* "\n".join(reasons)
RECURSIVE Join(_, _)
Join(reasons, sep) ==
    IF reasons = <<>> THEN ""
    ELSE IF Len(reasons) = 1 THEN Head(reasons)
    ELSE Head(reasons) \o sep \o Join(Tail(reasons), sep)

\* the <failure> block of a testcase
FailureElem(res) ==
    IF res.FAILED > 0
    THEN <<[tag |-> "failure", message |-> "Test Failed",
            type |-> "AssertionError",
            text |-> IF res.fail_reasons # <<>>
                     THEN Join(res.fail_reasons, "\n")
                     ELSE "No specific failure reason given."]>>
    ELSE <<>>

\* the <error> block of a testcase
ErrorElem(res) ==
    IF res.ABORTED > 0
    THEN <<[tag |-> "error", message |-> "Test Aborted",
            type |-> "AbortedTest",
            text |-> IF res.abort_reasons # <<>>
                     THEN Join(res.abort_reasons, "\n")
                     ELSE "No specific abort reason given."]>>
    ELSE <<>>

\* the <skipped /> block of a testcase
SkippedElem(res) ==
    IF res.SKIPPED > 0
    THEN LET combined_skip == Join(res.skip_reasons, "\n")
         IN  IF combined_skip # ""
             THEN <<[tag |-> "skipped", message |-> combined_skip]>>
             ELSE <<[tag |-> "skipped"]>>
    ELSE <<>>

\* the <system-out> section of a testcase
SystemOutElem(res) ==
    LET pass_msgs == Join(res.pass_reasons, "\n")
        warning_msgs == Join(res.warning_reasons, "\n")
        systemout_lines ==
            (IF res.PASSED > 0 /\ pass_msgs # ""
             THEN <<"PASSED Reasons:\n" \o pass_msgs>> ELSE <<>>)
            \o (IF res.WARNINGS > 0 /\ warning_msgs # ""
                THEN <<"WARNINGS:\n" \o warning_msgs>> ELSE <<>>)
    IN  IF systemout_lines # <<>>
        THEN <<[tag |-> "system-out", text |-> Join(systemout_lines, "\n\n")]>>
        ELSE <<>>

\* "handle each subtest as a <testcase>"
TestcaseElem(test, sub) ==
    LET res == sub.sub_test_result
    IN  [tag |-> "testcase",
         classname |-> test.Test_suite,
         name |-> sub.sub_Test_Description,
         children |-> FailureElem(res) \o ErrorElem(res)
                      \o SkippedElem(res) \o SystemOutElem(res)]

\* "Each main test becomes one <testsuite>"
TestsuiteElem(test) ==
    [tag |-> "testsuite",
     name |-> test.Test_suite,
     tests |-> ToString(Len(test.subtests)),
     failures |-> ToString(test.test_suite_summary.total_FAILED),
     errors |-> ToString(test.test_suite_summary.total_ABORTED),
     skipped |-> ToString(test.test_suite_summary.total_SKIPPED),
     suite_description |-> test.Test_suite_Description,
     testcases |-> [j \in 1..Len(test.subtests) |->
                       TestcaseElem(test, test.subtests[j])]]

\* the <testsuites> root
dict_to_junit_xml(data_dict) ==
    [tag |-> "testsuites",
     testsuites |-> [i \in 1..Len(data_dict.test_results) |->
                        TestsuiteElem(data_dict.test_results[i])]]

(***************************************************************************)
(* Pipeline B: main.                                                       *)
(***************************************************************************)
\* The input files named on the command line, in the given order.
input_files == <<"bsa.log", "sbsa.log">>

\* The raw lines the input files are drawn from.
LinesB == {
    "*** Starting PE tests ***",
    "*** Starting GICv2m tests ***",
    "Selected rules: all",
    "START - B_PE_01 : Check PE",
    "START GIC 12 : Check GIC",
    "END B_PE_01 PASSED (PARTIAL)",
    "END B_PE_01 FAILED NOT IMPLEMENTED",
    "END 12 not tested (PAL NOT SUPPORTED)",
    "END 12 ABORTED",
    "END 12 STATUS: done",
    "[ 0.5]  12 : Verify PE Register",
    "Mandatory",
    "B_PE_01, B_PE_02",
    ": Result: FAIL",
    ": Result: SKIPPED",
    "12 : Verify PE Register : Result: PASS",
    "12 : Check waiver : Result: FAILED_WITH_WAIVER",
    "13 : Timer check : Result: ABORTED",
    "" }

\* str.upper(), on the letters a-z
LowerAlphabet == "abcdefghijklmnopqrstuvwxyz"

UpperAlphabet == "ABCDEFGHIJKLMNOPQRSTUVWXYZ"

UpperChar(c) ==
    LET at == {i \in 1..Len(LowerAlphabet) : Chr(LowerAlphabet, i) = c}
    IN  IF at = {} THEN c ELSE Chr(UpperAlphabet, Min(at))

RECURSIVE UpperFrom(_, _)
UpperFrom(s, i) ==
    IF i > Len(s) THEN "" ELSE UpperChar(Chr(s, i)) \o UpperFrom(s, i + 1)

Upper(s) == UpperFrom(s, 1)

\* regex [A-Z0-9_]
IdChars == UpperLetters \cup Digits \cup {"_"}

\* ---- insertion-ordered dictionaries: sequences of [key, val]
DictHas(d, k) == \E i \in 1..Len(d) : d[i].key = k

\* d.get(k, default), and defaultdict's d[k] with default the empty value
DictGet(d, k, default) ==
    IF DictHas(d, k) THEN d[CHOOSE i \in 1..Len(d) : d[i].key = k].val
    ELSE default

\* d[k] = v: in place when the key is present, else a new last entry
DictSet(d, k, v) ==
    IF DictHas(d, k)
    THEN [i \in 1..Len(d) |-> IF d[i].key = k THEN [key |-> k, val |-> v] ELSE d[i]]
    ELSE Append(d, [key |-> k, val |-> v])

RECURSIVE DictDel(_, _)
DictDel(d, k) ==
    IF d = <<>> THEN <<>>
    ELSE IF Head(d).key = k THEN Tail(d)
    ELSE <<Head(d)>> \o DictDel(Tail(d), k)

\* ---- the line patterns
\* line.strip(), then re.sub(r'^\[.*?\]\s*', '', line)
CleanLine(raw) ==
    LET s == Strip(raw)
    IN  IF StartsWith(s, "[") /\ In("]", s)
        THEN From(s, RunEnd(s, Min(Occurrences(s, "]")) + 1, Whitespace))
        ELSE s

RunningBanner == "---------------------- Running tests ------------------------"

\* re.match(r'^START\s+([^\s:]+)\s+([A-Z0-9_]+)\s*:\s*(.*)$', line)
StartMatchNew(line) ==
    IF ~StartsWith(line, "START") THEN NoMatch
    ELSE LET a == RunEnd(line, 6, Whitespace)
             b == RunEndNot(line, a, Whitespace \cup {":"})
             c == RunEnd(line, b, Whitespace)
             d == RunEnd(line, c, IdChars)
             e == RunEnd(line, d, Whitespace)
         IN  IF a = 6 \/ b = a \/ c = b \/ d = c \/ ~At(line, e, ":") THEN NoMatch
             ELSE [ok |-> TRUE,
                   g1 |-> SubSeq(line, a, b - 1),
                   g2 |-> SubSeq(line, c, d - 1),
                   g3 |-> From(line, RunEnd(line, e + 1, Whitespace))]

\* re.match(r'^END\s+([A-Z0-9_]+)\s+(.*)$', line)
EndMatchNew(line) ==
    IF ~StartsWith(line, "END") THEN NoMatch
    ELSE LET a == RunEnd(line, 4, Whitespace)
             b == RunEnd(line, a, IdChars)
             c == RunEnd(line, b, Whitespace)
         IN  IF a = 4 \/ b = a \/ c = b THEN NoMatch
             ELSE [ok |-> TRUE,
                   g1 |-> SubSeq(line, a, b - 1),
                   g2 |-> From(line, c)]

\* the suite name of a "*** Starting" line:
\* re.search(r'\*\*\* Starting (.*) tests \*\*\*', line), group 1 greedy, else
\* line.strip().split("*** Starting")[1].split("tests")[0].strip()
BannerSuite(line) ==
    LET i == Min(Occurrences(line, "*** Starting "))
        ends == IF In("*** Starting ", line)
                THEN {j \in Occurrences(line, " tests ***") : j >= i + 13}
                ELSE {}
    IN  IF ends # {}
        THEN Strip(SubSeq(line, i + 13, Max(ends) - 1))
        ELSE Strip(SplitHead(SplitSecond(Strip(line), "*** Starting"), "tests"))

\* the end of r'\s*(\w+)' from index i: [ok, word, stop]
WordAfter(line, i) ==
    LET e == RunEnd(line, i, Whitespace)
        f == RunEnd(line, e, WordChars)
    IN  IF f = e THEN [ok |-> FALSE, stop |-> e]
        ELSE [ok |-> TRUE, word |-> SubSeq(line, e, f - 1), stop |-> f]

\* re.match(r'^\s*(\d+)\s*:\s*(.*?)\s*: Result:\s*(\w+)$', line)
ResultLineMatch(line) ==
    LET a == RunEnd(line, 1, Whitespace)
        b == RunEnd(line, a, Digits)
        c == RunEnd(line, b, Whitespace)
        d == RunEnd(line, c + 1, Whitespace)
        ps == {p \in Occurrences(line, ": Result:") :
                  /\ p >= d
                  /\ WordAfter(line, p + 9).ok
                  /\ WordAfter(line, p + 9).stop = Len(line) + 1}
    IN  IF b = a \/ ~At(line, c, ":") \/ ps = {} THEN NoMatch
        ELSE [ok |-> TRUE,
              g1 |-> SubSeq(line, a, b - 1),
              g2 |-> SubSeq(line, d, Min(ps) - 1),
              g3 |-> WordAfter(line, Min(ps) + 9).word]

\* re.match(r'^\s*(\d+)\s*:\s*(.*)$', line)
TestLineMatch(line) ==
    LET a == RunEnd(line, 1, Whitespace)
        b == RunEnd(line, a, Digits)
        c == RunEnd(line, b, Whitespace)
    IN  IF b = a \/ ~At(line, c, ":") THEN NoMatch
        ELSE [ok |-> TRUE,
              g1 |-> SubSeq(line, a, b - 1),
              g2 |-> From(line, RunEnd(line, c + 1, Whitespace))]

\* re.search(r': Result:\s*(\w+)', line)
ResultSearch(line) ==
    LET ps == {p \in Occurrences(line, ": Result:") : WordAfter(line, p + 9).ok}
    IN  IF ps = {} THEN NoMatch
        ELSE [ok |-> TRUE, g1 |-> WordAfter(line, Min(ps) + 9).word]

\* a rules test that also takes lowercase letters
IsRulesLineAnyCase(s) ==
    \/ Len(s) >= 1 /\ RunEnd(s, 1, IdChars \cup LowerLetters \cup {" ", ","}) = Len(s) + 1
    \/ StartsWith(s, "Appendix")

\* re.match(r'^[A-Z0-9_ ,]+$', s) or s.startswith('Appendix')
IsRulesLine(s) ==
    \/ Len(s) >= 1 /\ RunEnd(s, 1, IdChars \cup {" ", ","}) = Len(s) + 1
    \/ StartsWith(s, "Appendix")

\* result_mapping.get(word, word)
ResultMapping(word) ==
    CASE word = "PASS" -> "PASSED"
      [] word = "FAIL" -> "FAILED"
      [] word = "SKIPPED" -> "SKIPPED"
      [] OTHER -> word

\* ---- summaries
BucketKeys == {"Total Rules Run", "Passed", "Passed (Partial)", "Warnings",
               "Skipped", "Failed", "PAL Not Supported", "Not Implemented",
               "total_failed_with_waiver"}

ZeroSummaryB == [k \in BucketKeys |-> 0]

Bump(summary, k) == [summary EXCEPT ![k] = @ + 1]

\* a classification that tests PASSED before the PARTIAL and NOT TESTED rules
NormResPassedFirst(status_text) ==
    LET up == Upper(status_text)
    IN  IF In("PASSED", up) THEN "PASSED"
        ELSE IF In("FAILED", up) THEN "FAILED"
        ELSE IF In("NOT TESTED", up) /\ In("PAL NOT SUPPORTED", up) THEN "PAL_NOT_SUPPORTED"
        ELSE IF In("NOT TESTED", up) /\ In("NOT IMPLEMENTED", up) THEN "NOT_IMPLEMENTED"
        ELSE IF In("SKIPPED", up) THEN "SKIPPED"
        ELSE IF StartsWith(up, "STATUS:") THEN "STATUS"
        ELSE IF status_text # "" THEN status_text ELSE "UNKNOWN"

\* "Classify without coercing to SKIPPED"
NormRes(status_text) ==
    LET up == Upper(status_text)
    IN  IF In("PASSED", up) /\ In("PARTIAL", up) THEN "PASSED_PARTIAL"
        ELSE IF In("NOT TESTED", up) /\ In("PAL NOT SUPPORTED", up) THEN "PAL_NOT_SUPPORTED"
        ELSE IF In("NOT TESTED", up) /\ In("NOT IMPLEMENTED", up) THEN "NOT_IMPLEMENTED"
        ELSE IF In("PASSED", up) THEN "PASSED"
        ELSE IF In("FAILED", up) THEN "FAILED"
        ELSE IF In("SKIPPED", up) THEN "SKIPPED"
        ELSE IF StartsWith(up, "STATUS:") THEN "STATUS"
        ELSE IF status_text # "" THEN status_text ELSE "UNKNOWN"

\* a rendering that reports a partial pass as a plain pass
PrettyResPartialAsPassed(norm_res, status_text) ==
    IF norm_res \in {"PAL_NOT_SUPPORTED", "NOT_IMPLEMENTED"} /\ status_text # ""
    THEN status_text
    ELSE IF norm_res = "PASSED_PARTIAL" THEN "PASSED"
    ELSE IF norm_res \in {"PASSED", "FAILED", "SKIPPED", "STATUS"} THEN norm_res
    ELSE IF status_text # "" THEN status_text ELSE "UNKNOWN"

\* "Keep sub_test_result human-readable"
PrettyRes(norm_res, status_text) ==
    IF norm_res \in {"PAL_NOT_SUPPORTED", "NOT_IMPLEMENTED"} /\ status_text # ""
    THEN status_text
    ELSE IF norm_res = "PASSED_PARTIAL" THEN "PASSED(*PARTIAL)"
    ELSE IF norm_res \in {"PASSED", "FAILED", "SKIPPED", "STATUS"} THEN norm_res
    ELSE IF status_text # "" THEN status_text ELSE "UNKNOWN"

\* the raw-text tallies: "Passed (Partial)", "PAL Not Supported", "Not Implemented"
BumpRaw(summary, raw_up) ==
    LET s1 == IF In("PASSED", raw_up) /\ In("PARTIAL", raw_up)
              THEN Bump(summary, "Passed (Partial)") ELSE summary
        s2 == IF In("PAL NOT SUPPORTED", raw_up)
              THEN Bump(s1, "PAL Not Supported") ELSE s1
    IN  IF In("NOT IMPLEMENTED", raw_up) THEN Bump(s2, "Not Implemented") ELSE s2

\* a summary update that takes the raw-text tallies only when no primary
\* bucket was incremented
BumpModernExclusive(summary, pretty_res, status_text, status_up) ==
    IF In("FAILED", pretty_res) /\ In("WAIVER", pretty_res)
    THEN Bump(summary, "total_failed_with_waiver")
    ELSE IF pretty_res = "PASSED" THEN Bump(summary, "Passed")
    ELSE IF pretty_res = "FAILED" THEN Bump(summary, "Failed")
    ELSE IF pretty_res = "SKIPPED" THEN Bump(summary, "Skipped")
    ELSE IF pretty_res = "STATUS" THEN Bump(summary, "Warnings")
    ELSE BumpRaw(summary, IF status_text # "" THEN status_up ELSE "")

\* "Update global summary buckets", on an accepted END
BumpModern(summary, pretty_res, status_text, status_up) ==
    LET s1 == IF In("FAILED", pretty_res) /\ In("WAIVER", pretty_res)
              THEN Bump(summary, "total_failed_with_waiver")
              ELSE IF pretty_res = "PASSED" THEN Bump(summary, "Passed")
              ELSE IF pretty_res = "FAILED" THEN Bump(summary, "Failed")
              ELSE IF pretty_res = "SKIPPED" THEN Bump(summary, "Skipped")
              ELSE IF pretty_res = "STATUS" THEN Bump(summary, "Warnings")
              ELSE summary
    IN  BumpRaw(s1, IF status_text # "" THEN status_up ELSE "")

\* a bucket update that tests plain FAILED before the waiver
BumpLegacyWaiverAsFailed(summary, res) ==
    IF In("FAILED", res) THEN Bump(summary, "Failed")
    ELSE IF res = "PASSED" THEN Bump(summary, "Passed")
    ELSE IF res = "ABORTED" THEN Bump(summary, "Warnings")
    ELSE IF res = "SKIPPED" THEN Bump(summary, "Skipped")
    ELSE IF res = "WARNING" THEN Bump(summary, "Warnings")
    ELSE summary

\* "Update suite_summary", on an accepted legacy subtest
BumpLegacy(summary, res) ==
    IF In("FAILED", res) /\ In("WAIVER", res)
    THEN Bump(summary, "total_failed_with_waiver")
    ELSE IF res = "PASSED" THEN Bump(summary, "Passed")
    ELSE IF res = "FAILED" THEN Bump(summary, "Failed")
    ELSE IF res = "ABORTED" THEN Bump(summary, "Warnings")
    ELSE IF res = "SKIPPED" THEN Bump(summary, "Skipped")
    ELSE IF res = "WARNING" THEN Bump(summary, "Warnings")
    ELSE summary

\* "Count test results for the suite": one subtest replayed by the aggregator
CountSubtest(summary, subtest) ==
    LET res == subtest.sub_test_result
        raw == IF "raw_status" \in DOMAIN subtest THEN subtest.raw_status ELSE ""
        s1 == IF In("FAILED", res) /\ In("WAIVER", res)
              THEN Bump(summary, "total_failed_with_waiver")
              ELSE IF res = "PASSED" THEN Bump(summary, "Passed")
              ELSE IF res = "FAILED" THEN Bump(summary, "Failed")
              ELSE IF res = "ABORTED" THEN Bump(summary, "Warnings")
              ELSE IF res = "SKIPPED" THEN Bump(summary, "Skipped")
              ELSE IF res = "WARNING" THEN Bump(summary, "Warnings")
              ELSE IF res = "STATUS" THEN Bump(summary, "Warnings")
              ELSE summary
    IN  BumpRaw(s1, Upper(raw))

RECURSIVE CountSubtests(_, _)
CountSubtests(summary, subtests) ==
    IF subtests = <<>> THEN summary
    ELSE CountSubtests(CountSubtest(summary, Head(subtests)), Tail(subtests))

\* a total that also counts the waived failures
TotalRulesRunWithWaiver(summary) ==
    [summary EXCEPT !["Total Rules Run"] =
        summary["Passed"] + summary["Failed"] + summary["Skipped"]
        + summary["Warnings"] + summary["PAL Not Supported"]
        + summary["Not Implemented"] + summary["Passed (Partial)"]
        + summary["total_failed_with_waiver"]]

\* "Compute Total Rules Run"
TotalRulesRun(summary) ==
    [summary EXCEPT !["Total Rules Run"] =
        summary["Passed"] + summary["Failed"] + summary["Skipped"]
        + summary["Warnings"] + summary["PAL Not Supported"]
        + summary["Not Implemented"] + summary["Passed (Partial)"]]

\* ---- the text of one raw line, as the loop body reads it: the cleaned
\* line, its pattern matches and the texts derived from the matched groups.
\* These depend on the line alone and are computed once per line.
WithEndStatus(m) ==
    IF ~m.ok THEN m
    ELSE LET status_text == Strip(m.g2)
             norm_res == NormRes(status_text)
         IN  m @@ [status_text |-> status_text,
                   raw_up |-> Upper(status_text),
                   norm_res |-> norm_res,
                   pretty_res |-> PrettyRes(norm_res, status_text)]

WithMapped(m, word) ==
    IF ~m.ok THEN m ELSE m @@ [mapped |-> ResultMapping(Strip(m[word]))]

LexLine(line) ==
        [line |-> line,
         stripped |-> Strip(line),
         trigger |-> \/ StartsWith(line, "START ")
                     \/ In(RunningBanner, line)
                     \/ In("Selected rules:", line),
         start_match_new |-> StartMatchNew(line),
         end_match_new |-> WithEndStatus(EndMatchNew(line)),
         starting |-> In("*** Starting", line),
         banner_suite |-> IF In("*** Starting", line) THEN BannerSuite(line) ELSE "",
         result_line |-> WithMapped(ResultLineMatch(line), "g3"),
         test_line |-> TestLineMatch(line),
         has_result |-> In(": Result:", line),
         result_search |-> WithMapped(ResultSearch(line), "g1"),
         is_rules |-> IsRulesLine(Strip(line))]

LexedB == [raw \in LinesB |-> LexLine(CleanLine(raw))]

\* ---- the loop body, on the parser's state S
StateB ==
    [processing |-> processing, in_test |-> in_test, suite_name |-> suite_name,
     test_number |-> test_number, test_name |-> test_name,
     test_description |-> test_description, result |-> result, rules |-> rules,
     result_data |-> result_data, suite_summary |-> suite_summary,
     test_numbers_per_suite |-> test_numbers_per_suite,
     active_tests |-> active_tests]

\* result_data[suite].append(entry); test_numbers_per_suite[suite].add(id)
Accept(S, suite, entry) ==
    [S EXCEPT
        !.result_data = DictSet(@, suite, Append(DictGet(@, suite, <<>>), entry)),
        !.test_numbers_per_suite =
            DictSet(@, suite, DictGet(@, suite, {}) \cup {entry.sub_Test_Number})]

\* a duplicate check that never finds the id
SeenNever(S, suite, id) == FALSE

\* id in test_numbers_per_suite[suite]
Seen(S, suite, id) == id \in DictGet(S.test_numbers_per_suite, suite, {})

\* a START handler that records the suite current before the token is applied
HandleStartStaleSuite(S, m) ==
    LET token_suite == Strip(m.g1)
        current_test_id == Strip(m.g2)
        current_desc == Strip(m.g3)
        suite == IF token_suite # "-" THEN token_suite ELSE S.suite_name
    IN  [S EXCEPT
            !.suite_name = suite,
            !.active_tests =
                DictSet(@, current_test_id,
                        [suite |-> S.suite_name, desc |-> current_desc])]

\* a START handler that uses the token for its own test only
HandleStartLocalSuite(S, m) ==
    LET token_suite == Strip(m.g1)
        current_test_id == Strip(m.g2)
        current_desc == Strip(m.g3)
        suite == IF token_suite # "-" THEN token_suite ELSE S.suite_name
    IN  [S EXCEPT
            !.active_tests =
                DictSet(@, current_test_id, [suite |-> suite, desc |-> current_desc])]

\* "Handle new-format START lines"
HandleStart(S, m) ==
    LET token_suite == Strip(m.g1)
        current_test_id == Strip(m.g2)
        current_desc == Strip(m.g3)
        suite == IF token_suite # "-" THEN token_suite ELSE S.suite_name
    IN  [S EXCEPT
            !.suite_name = suite,
            !.active_tests =
                DictSet(@, current_test_id, [suite |-> suite, desc |-> current_desc])]

\* an END handler that files a test it has no entry for under the empty suite
HandleEndEmptySuite(S, m) ==
    LET end_id == Strip(m.g1)
        status_text == m.status_text
        known == DictHas(S.active_tests, end_id)
        meta == DictGet(S.active_tests, end_id, None)
        suite_for_test == IF known THEN meta.suite ELSE ""
        desc_for_test == IF known THEN meta.desc ELSE ""
        popped == [S EXCEPT !.active_tests = DictDel(@, end_id)]
        pretty_res == m.pretty_res
        base == [sub_Test_Number |-> end_id,
                 sub_Test_Description |-> desc_for_test,
                 sub_test_result |-> pretty_res]
        subtest_entry == IF status_text # ""
                         THEN base @@ ("raw_status" :> status_text)
                         ELSE base
    IN  IF Seen(popped, suite_for_test, end_id) THEN popped
        ELSE [Accept(popped, suite_for_test, subtest_entry) EXCEPT
                 !.suite_summary = BumpModern(@, pretty_res, status_text, m.raw_up)]

\* "Handle new-format END lines"
HandleEnd(S, m) ==
    LET end_id == Strip(m.g1)
        status_text == m.status_text
        norm_res == m.norm_res
        known == DictHas(S.active_tests, end_id)
        meta == DictGet(S.active_tests, end_id, None)
        suite_for_test == IF known THEN meta.suite ELSE S.suite_name
        desc_for_test == IF known THEN meta.desc ELSE ""
        popped == [S EXCEPT !.active_tests = DictDel(@, end_id)]
        pretty_res == m.pretty_res
        base == [sub_Test_Number |-> end_id,
                 sub_Test_Description |-> desc_for_test,
                 sub_test_result |-> pretty_res]
        subtest_entry == IF status_text # ""
                         THEN base @@ ("raw_status" :> status_text)
                         ELSE base
    IN  IF Seen(popped, suite_for_test, end_id) THEN popped
        ELSE [Accept(popped, suite_for_test, subtest_entry) EXCEPT
                 !.suite_summary = BumpModern(@, pretty_res, status_text, m.raw_up)]

\* a banner handler that leaves a pending legacy subtest pending
HandleBannerKeepPending(S, L) ==
    LET name == L.banner_suite
    IN  [S EXCEPT !.suite_name = IF name = "GICv2m" THEN "GIC" ELSE name,
                  !.processing = TRUE]

\* the "*** Starting" banner
HandleBanner(S, L) ==
    LET name == L.banner_suite
    IN  [S EXCEPT !.suite_name = IF name = "GICv2m" THEN "GIC" ELSE name,
                  !.processing = TRUE,
                  !.in_test = FALSE]

\* an inline-result handler that tallies the result before looking for a
\* duplicate
HandleResultLineCountsDuplicate(S, m) ==
    LET number == Strip(m.g1)
        name == Strip(m.g2)
        res == m.mapped
        S1 == [S EXCEPT !.test_number = number, !.test_name = name,
                        !.result = res, !.test_description = "", !.rules = "",
                        !.suite_summary = BumpLegacy(@, res)]
        subtest_entry == [sub_Test_Number |-> number,
                          sub_Test_Description |-> name,
                          sub_test_result |-> res]
    IN  IF Seen(S1, S1.suite_name, number) THEN S1
        ELSE [Accept(S1, S1.suite_name, subtest_entry) EXCEPT
                 !.in_test = FALSE, !.test_number = "", !.test_name = "",
                 !.test_description = "", !.result = "", !.rules = ""]

\* "Try to match test line with result on same line"
HandleResultLine(S, m) ==
    LET number == Strip(m.g1)
        name == Strip(m.g2)
        res == m.mapped
        S1 == [S EXCEPT !.test_number = number, !.test_name = name,
                        !.result = res, !.test_description = "", !.rules = ""]
        subtest_entry == [sub_Test_Number |-> number,
                          sub_Test_Description |-> name,
                          sub_test_result |-> res]
    IN  IF Seen(S1, S1.suite_name, number) THEN S1
        ELSE [Accept(S1, S1.suite_name, subtest_entry) EXCEPT
                 !.suite_summary = BumpLegacy(@, res),
                 !.in_test = FALSE, !.test_number = "", !.test_name = "",
                 !.test_description = "", !.result = "", !.rules = ""]

\* a numbered line that opens a subtest without clearing the rules
HandleTestLineKeepRules(S, m) ==
    [S EXCEPT !.test_number = Strip(m.g1), !.test_name = Strip(m.g2),
              !.in_test = TRUE, !.test_description = "", !.result = ""]

\* a numbered line that first records the subtest still pending, as UNKNOWN
HandleTestLineRecordsPending(S, m) ==
    LET S1 == IF S.in_test /\ ~Seen(S, S.suite_name, S.test_number)
              THEN Accept(S, S.suite_name,
                          [sub_Test_Number |-> S.test_number,
                           sub_Test_Description |-> S.test_name,
                           sub_test_result |-> "UNKNOWN"])
              ELSE S
    IN  [S1 EXCEPT !.test_number = Strip(m.g1), !.test_name = Strip(m.g2),
                   !.in_test = TRUE, !.test_description = "", !.result = "",
                   !.rules = ""]

\* "Try to match test line without result"
HandleTestLine(S, m) ==
    [S EXCEPT !.test_number = Strip(m.g1), !.test_name = Strip(m.g2),
              !.in_test = TRUE, !.test_description = "", !.result = "",
              !.rules = ""]

\* a pending legacy subtest closed by a line holding ': Result:'
HandlePendingResult(S, L) ==
    LET m == L.result_search
        res == IF m.ok THEN m.mapped ELSE "UNKNOWN"
        S1 == [S EXCEPT !.result = res]
        base == [sub_Test_Number |-> S.test_number,
                 sub_Test_Description |-> S.test_name,
                 sub_test_result |-> res]
        subtest_entry ==
            IF res = "FAILED" /\ S.rules # ""
            THEN base @@ ("RULES FAILED" :> Strip(S.rules))
            ELSE IF res = "SKIPPED" /\ S.rules # ""
            THEN base @@ ("RULES SKIPPED" :> Strip(S.rules))
            ELSE base
    IN  IF Seen(S1, S1.suite_name, S1.test_number)
        THEN [S1 EXCEPT !.in_test = FALSE]
        ELSE [Accept(S1, S1.suite_name, subtest_entry) EXCEPT
                 !.suite_summary = BumpLegacy(@, res),
                 !.in_test = FALSE, !.test_number = "", !.test_name = "",
                 !.test_description = "", !.result = "", !.rules = ""]

\* "Check if line is rules", else "Append to test_description"
AccumulateLine(S, L) ==
    IF L.is_rules
    THEN [S EXCEPT !.rules = IF @ # "" THEN @ \o " " \o L.stripped ELSE L.stripped]
    ELSE [S EXCEPT !.test_description =
                      IF @ # "" THEN @ \o " " \o L.stripped ELSE L.stripped]

\* the legacy dialect, reached with processing on
LegacyLine(S, L) ==
    IF L.stripped = "" THEN S
    ELSE IF L.result_line.ok THEN HandleResultLine(S, L.result_line)
    ELSE IF L.test_line.ok THEN HandleTestLine(S, L.test_line)
    ELSE IF S.in_test
    THEN IF L.has_result THEN HandlePendingResult(S, L)
         ELSE AccumulateLine(S, L)
    ELSE S

\* "Allow new-format runs to trigger processing without old banners"
TriggerProcessing(S, L) ==
    IF ~S.processing /\ L.trigger THEN [S EXCEPT !.processing = TRUE] ELSE S

\* a dispatch that reaches the legacy dialect whether processing is on or not
DispatchLineUngated(S, L) ==
    IF L.start_match_new.ok THEN HandleStart(S, L.start_match_new)
    ELSE IF L.end_match_new.ok THEN HandleEnd(S, L.end_match_new)
    ELSE IF L.starting THEN HandleBanner(S, L)
    ELSE LegacyLine(S, L)

\* One iteration of the while loop over a file's lines.
DispatchLine(S, L) ==
    IF L.start_match_new.ok THEN HandleStart(S, L.start_match_new)
    ELSE IF L.end_match_new.ok THEN HandleEnd(S, L.end_match_new)
    ELSE IF L.starting THEN HandleBanner(S, L)
    ELSE IF S.processing THEN LegacyLine(S, L)
    ELSE S

LoopBodyLexed(S0, L) == DispatchLine(TriggerProcessing(S0, L), L)

LoopBodyB(S0, raw) == LoopBodyLexed(S0, LexedB[raw])

\* "Prepare the final output structure": one test_results entry per item of
\* result_data, then the run's Total Rules Run.
RECURSIVE FormatSuites(_)
FormatSuites(items) ==
    IF items = <<>> THEN <<>>
    ELSE <<[Test_suite |-> Head(items).key,
            subtests |-> Head(items).val,
            test_suite_summary |->
                TotalRulesRun(CountSubtests(ZeroSummaryB, Head(items).val))]>>
         \o FormatSuites(Tail(items))

InitB ==
    /\ pcB = "scan"
    /\ processing = FALSE
    /\ in_test = FALSE
    /\ suite_name = ""
    /\ test_number = ""
    /\ test_name = ""
    /\ test_description = ""
    /\ result = ""
    /\ rules = ""
    /\ result_data = <<>>
    /\ suite_summary = ZeroSummaryB
    /\ test_numbers_per_suite = <<>>
    /\ active_tests = <<>>
    /\ lineB = ""
    /\ fileB = 1
    /\ nB = 0
    /\ formatted_result = None

\* the parser's state after an iteration
StoreB(S) ==
    /\ processing' = S.processing
    /\ in_test' = S.in_test
    /\ suite_name' = S.suite_name
    /\ test_number' = S.test_number
    /\ test_name' = S.test_name
    /\ test_description' = S.test_description
    /\ result' = S.result
    /\ rules' = S.rules
    /\ result_data' = S.result_data
    /\ suite_summary' = S.suite_summary
    /\ test_numbers_per_suite' = S.test_numbers_per_suite
    /\ active_tests' = S.active_tests

\* One line of the current file is read and handled.
ScanLineB ==
    /\ pcB = "scan"
    /\ nB < MaxLinesB
    /\ \E raw \in LinesB :
          /\ lineB' = raw
          /\ StoreB(LoopBodyB(StateB, raw))
    /\ nB' = nB + 1
    /\ UNCHANGED <<pcB, fileB, formatted_result>>
    /\ UNCHANGED varsA

\* Lines that exercise the classification of END status texts and of legacy
\* result words, one test id per END and result line; the first four turn
\* processing on.
ClassLinesB == {
    "Selected rules: all",
    "---------------------- Running tests ------------------------",
    "*** Starting PE tests ***",
    "START - T1 : Check one",
    "END T1 PASSED (PARTIAL)",
    "END T2 not tested (PAL NOT SUPPORTED)",
    "END T3 Not Tested (NOT IMPLEMENTED): FAILED",
    "END T4 PASSED, 2 SKIPPED",
    "END T5 FAILED NOT IMPLEMENTED",
    "END T6 STATUS: FAILED",
    "END T7 skipped",
    "END T8 Status: done",
    "END T9 ABORTED",
    "END T10 skipped (PAL NOT SUPPORTED)",
    "1 : Check one : Result: PASS",
    "2 : Check two : Result: FAIL",
    "3 : Check three : Result: SKIPPED",
    "4 : Check four : Result: ABORTED",
    "5 : Check five : Result: WARNING",
    "6 : Check six : Result: FAILED_WITH_WAIVER",
    "7 : Check seven : Result: TIMEOUT",
    "8 : Check eight : Result: PASSED" }

LexedClassB == [raw \in ClassLinesB |-> LexLine(CleanLine(raw))]

\* One line of the current file is read and handled (classification lines).
ScanClassLineB ==
    /\ pcB = "scan"
    /\ nB < MaxClassLinesB
    /\ \E raw \in ClassLinesB :
          /\ lineB' = raw
          /\ StoreB(LoopBodyLexed(StateB, LexedClassB[raw]))
    /\ nB' = nB + 1
    /\ UNCHANGED <<pcB, fileB, formatted_result>>
    /\ UNCHANGED varsA

\* Lines that exercise a pending legacy subtest: two numbered lines, two rule
\* lines and three Result lines; the first line turns processing on.
RulesLinesB == {
    "Selected rules: all",
    "9 : Check nine",
    "10 : Check ten",
    "R_01, R_02",
    "R_03",
    ": Result: FAIL",
    ": Result: SKIPPED",
    ": Result: PASS" }

LexedRulesB == [raw \in RulesLinesB |-> LexLine(CleanLine(raw))]

\* One line of the current file is read and handled (pending-subtest lines).
ScanRulesLineB ==
    /\ pcB = "scan"
    /\ nB < MaxRulesLinesB
    /\ \E raw \in RulesLinesB :
          /\ lineB' = raw
          /\ StoreB(LoopBodyLexed(StateB, LexedRulesB[raw]))
    /\ nB' = nB + 1
    /\ UNCHANGED <<pcB, fileB, formatted_result>>
    /\ UNCHANGED varsA

\* Two input files for the file loop: the first holds lines that open work
\* (a banner, a START, an accepted legacy subtest, a numbered line), the second
\* holds the lines that close it.
FileLinesB == <<
    { "*** Starting PE tests ***",
      "START - B_PE_01 : Check PE",
      "12 : Verify PE Register : Result: PASS",
      "13 : Timer check" },
    { ": Result: FAIL",
      "END B_PE_01 PASSED",
      "12 : Check waiver : Result: FAIL" } >>

LexedFileB ==
    [raw \in FileLinesB[1] \cup FileLinesB[2] |-> LexLine(CleanLine(raw))]

\* One line of the current file is read and handled (each file has its own
\* lines).
ScanFileLineB ==
    /\ pcB = "scan"
    /\ nB < MaxFileLinesB
    /\ \E raw \in FileLinesB[fileB] :
          /\ lineB' = raw
          /\ StoreB(LoopBodyLexed(StateB, LexedFileB[raw]))
    /\ nB' = nB + 1
    /\ UNCHANGED <<pcB, fileB, formatted_result>>
    /\ UNCHANGED varsA

\* a file loop that starts every file with no pending subtest, no active
\* tests and empty seen-sets
NextFileBFreshState ==
    /\ pcB = "scan"
    /\ fileB < Len(input_files)
    /\ fileB' = fileB + 1
    /\ in_test' = FALSE
    /\ test_numbers_per_suite' = <<>>
    /\ active_tests' = <<>>
    /\ UNCHANGED <<pcB, processing, suite_name, test_number, test_name,
                   test_description, result, rules, result_data, suite_summary,
                   lineB, nB, formatted_result>>
    /\ UNCHANGED varsA

\* The current file is exhausted and the next one is opened.
NextFileB ==
    /\ pcB = "scan"
    /\ fileB < Len(input_files)
    /\ fileB' = fileB + 1
    /\ UNCHANGED <<pcB, processing, in_test, suite_name, test_number, test_name,
                   test_description, result, rules, result_data, suite_summary,
                   test_numbers_per_suite, active_tests, lineB, nB,
                   formatted_result>>
    /\ UNCHANGED varsA

\* The last file is exhausted: aggregation and output.
FinishB ==
    /\ pcB = "scan"
    /\ pcB' = "done"
    /\ suite_summary' = TotalRulesRun(suite_summary)
    /\ formatted_result' = [test_results |-> FormatSuites(result_data),
                            suite_summary |-> TotalRulesRun(suite_summary)]
    /\ UNCHANGED <<processing, in_test, suite_name, test_number, test_name,
                   test_description, result, rules, result_data,
                   test_numbers_per_suite, active_tests, lineB, fileB, nB>>
    /\ UNCHANGED varsA

NextB == ScanLineB \/ NextFileB \/ FinishB

(***************************************************************************)
(* Specifications.                                                         *)
(***************************************************************************)
Init == InitA /\ InitB

\* a run of logs_to_xml.py
SpecA == Init /\ [][NextA]_vars

\* a run of logs_to_json.py
SpecB == Init /\ [][NextB]_vars

NextC == ScanClassLineB \/ NextFileB \/ FinishB

\* pipeline B on the classification lines
SpecC == Init /\ [][NextC]_vars

NextR == ScanRulesLineB \/ NextFileB \/ FinishB

\* pipeline B on the pending-subtest lines
SpecR == Init /\ [][NextR]_vars

NextF == ScanFileLineB \/ NextFileB \/ FinishB

\* pipeline B on two files, one opening and one closing
SpecF == Init /\ [][NextF]_vars

\* a run of either script: one of them is started and runs alone
Next ==
    \/ InitB /\ PreScanA
    \/ InitB /\ ScanLineA
    \/ InitB /\ ReturnA
    \/ InitA /\ ScanLineB
    \/ InitA /\ NextFileB
    \/ InitA /\ FinishB

Spec == Init /\ [][Next]_vars

(***************************************************************************)
(* Properties.                                                             *)
(***************************************************************************)
IsPrefix(u, v) == Len(u) <= Len(v) /\ SubSeq(v, 1, Len(u)) = u

Last(q) == q[Len(q)]

\* the sub_Test_Number values of a subtest list are pairwise different
UniqueIds(subtests) ==
    \A i, j \in 1..Len(subtests) :
        subtests[i].sub_Test_Number = subtests[j].sub_Test_Number => i = j

\* the Test_suite values of a suite list are pairwise different
UniqueSuites(tests) ==
    \A i, j \in 1..Len(tests) : tests[i].Test_suite = tests[j].Test_suite => i = j

\* an iteration of pipeline A's main scan has just read lineA'
ReadsLineA == pcA = "scan" /\ (nA' # nA \/ log_data' # log_data)

\* the line starts a suite: it begins with a token of main_tests and ":"
IsSuiteStart(line) ==
    \E i \in 1..Len(main_tests) : StartsWith(line, main_tests[i] \o ":")

\* sum of one counter over a list of pipeline A subtests
RECURSIVE SumResult(_, _)
SumResult(subtests, key) ==
    IF subtests = <<>> THEN 0
    ELSE Head(subtests).sub_test_result[key] + SumResult(Tail(subtests), key)

\* sum of one total over a list of pipeline A suites
RECURSIVE SumTotal(_, _)
SumTotal(tests, key) ==
    IF tests = <<>> THEN 0
    ELSE Head(tests).test_suite_summary[key] + SumTotal(Tail(tests), key)

SuiteTotalsAreSums(test) ==
    \A key \in {"PASSED", "FAILED", "ABORTED", "SKIPPED", "WARNINGS"} :
        test.test_suite_summary["total_" \o key] = SumResult(test.subtests, key)

\* ---- C1
C1_Sums ==
    /\ \A i \in 1..Len(results) : SuiteTotalsAreSums(results[i])
    /\ pcA = "done" =>
          /\ retA.test_results = results
          /\ \A key \in DOMAIN ZeroSummaryA :
                retA.suite_summary[key] = SumTotal(retA.test_results, key)

C1_FlushedOnce ==
    \/ results' = results
    \/ /\ current_test # None
       /\ results' = Append(results, Last(results'))
       /\ Last(results').Test_suite = current_test.Test_suite
       /\ Last(results').subtests =
             IF current_subtest # None
             THEN Append(current_test.subtests, current_subtest)
             ELSE current_test.subtests

\* C1: pipeline A: every closed suite's test_suite_summary is the elementwise
\* sum of the five counters over exactly the subtests listed in it, the
\* returned suite_summary is the elementwise sum of the suites' summaries,
\* and a step closes at most one suite: the open one, once, with its subtests.
C1_SummariesAreSums == []C1_Sums /\ [][C1_FlushedOnce]_vars

C1_Witness ==
    /\ pcA = "done"
    /\ Len(retA.test_results) = 2
    /\ retA.test_results[1].test_suite_summary.total_PASSED >= 1
    /\ retA.test_results[2].test_suite_summary.total_SKIPPED >= 1
    /\ Len(retA.test_results[1].subtests) >= 1

\* ---- C2
\* sum of one bucket over the per-suite records of pipeline B's output
RECURSIVE SumBucket(_, _)
SumBucket(tests, key) ==
    IF tests = <<>> THEN 0
    ELSE Head(tests).test_suite_summary[key] + SumBucket(Tail(tests), key)

\* C2: pipeline B: in the output every bucket of the run-level suite_summary
\* (Total Rules Run aside) equals the sum of that bucket over the per-suite
\* test_suite_summary records.
C2_RunTotalsEqualSuiteSums ==
    pcB = "done" =>
        \A key \in BucketKeys \ {"Total Rules Run"} :
            formatted_result.suite_summary[key]
                = SumBucket(formatted_result.test_results, key)

\* ---- C3
SevenBuckets(summary) ==
    summary["Passed"] + summary["Failed"] + summary["Skipped"]
    + summary["Warnings"] + summary["PAL Not Supported"]
    + summary["Not Implemented"] + summary["Passed (Partial)"]

\* C3: pipeline B: in the output, "Total Rules Run" of every suite summary and
\* of the run summary is Passed + Failed + Skipped + Warnings + PAL Not
\* Supported + Not Implemented + Passed (Partial); total_failed_with_waiver
\* is not part of it.
C3_TotalRulesRun ==
    pcB = "done" =>
        /\ formatted_result.suite_summary["Total Rules Run"]
              = SevenBuckets(formatted_result.suite_summary)
        /\ \A i \in 1..Len(formatted_result.test_results) :
              LET t == formatted_result.test_results[i].test_suite_summary
              IN  t["Total Rules Run"] = SevenBuckets(t)

C3_Witness ==
    /\ pcB = "done"
    /\ formatted_result.suite_summary["total_failed_with_waiver"] = 1
    /\ formatted_result.suite_summary["Total Rules Run"] = 1
    /\ \E i \in 1..Len(formatted_result.test_results) :
          LET t == formatted_result.test_results[i].test_suite_summary
          IN  t["total_failed_with_waiver"] = 1 /\ t["Total Rules Run"] = 1

\* ---- C4
C4_Unique ==
    /\ \A i \in 1..Len(result_data) : UniqueIds(result_data[i].val)
    /\ pcB = "done" =>
          \A i \in 1..Len(formatted_result.test_results) :
              UniqueIds(formatted_result.test_results[i].subtests)

C4_Retained ==
    \A i \in 1..Len(result_data) :
        /\ i <= Len(result_data')
        /\ result_data'[i].key = result_data[i].key
        /\ IsPrefix(result_data[i].val, result_data'[i].val)

\* C4: pipeline B: at every point of the scan and in the output no suite holds
\* two subtests with the same sub_Test_Number, and every step keeps each
\* suite's accepted entries unchanged and in place (entries are only added
\* behind them), so a pair that completes again is not appended.
C4_FirstAcceptedIsKept == []C4_Unique /\ [][C4_Retained]_vars

\* "12" was accepted for GIC through START/END and is dropped when the legacy
\* inline-result line completes it again
C4_Witness ==
    /\ lineB = "12 : Verify PE Register : Result: PASS"
    /\ suite_name = "GIC"
    /\ DictHas(result_data, "GIC")
    /\ Len(DictGet(result_data, "GIC", <<>>)) = 1
    /\ DictGet(result_data, "GIC", <<>>)[1].sub_Test_Number = "12"
    /\ DictGet(result_data, "GIC", <<>>)[1].sub_test_result = "ABORTED"

\* ---- C5
\* C5: pipeline A: within every suite, closed or open, the sub_Test_Number
\* values of the listed subtests are pairwise different.
C5_UniqueIdsA ==
    /\ \A i \in 1..Len(results) : UniqueIds(results[i].subtests)
    /\ current_test # None => UniqueIds(current_test.subtests)

\* ---- C6
\* C6: in the Run returned by either pipeline no two entries of test_results
\* carry the same Test_suite.
C6_UniqueSuitesBoth ==
    /\ pcA = "done" => UniqueSuites(retA.test_results)
    /\ pcB = "done" => UniqueSuites(formatted_result.test_results)

\* ---- C7
\* C7: pipeline A: the parse never fails, whatever lines are read.
C7_NoFailure == pcA # "TypeError"

\* ---- C8
SkippedSynth(reasons) ==
    [sub_Test_Number |-> "Test 1 of 1",
     sub_Test_Description |-> "Skipped test",
     sub_test_result |->
        [PASSED |-> 0, FAILED |-> 0, ABORTED |-> 0, SKIPPED |-> 1, WARNINGS |-> 0,
         pass_reasons |-> <<>>, fail_reasons |-> <<>>, abort_reasons |-> <<>>,
         skip_reasons |-> reasons,
         warning_reasons |-> <<>>]]

C8_Step ==
    /\ (/\ ReadsLineA
        /\ current_test # None
        /\ current_subtest = None
        /\ In("SKIPPED", lineA')
        /\ ~SubtestMatch(lineA').ok
        /\ ~IsAbortLine(lineA'))
       => /\ pcA' = "scan"
          /\ current_subtest' = None
          /\ current_test' # None
          /\ Len(current_test'.subtests) >= 1
          /\ current_test'.subtests =
                Append(IF IsSuiteStart(lineA') THEN <<>> ELSE current_test.subtests,
                       Last(current_test'.subtests))
          /\ LET reasons == Last(current_test'.subtests).sub_test_result.skip_reasons
             IN  /\ Len(reasons) = 1
                 /\ Last(current_test'.subtests) = SkippedSynth(reasons)
    /\ (/\ ReadsLineA
        /\ current_test # None
        /\ pcA' = "scan")
       => IF IsSuiteStart(lineA')
          THEN /\ results' = Append(results, Last(results'))
               /\ IsPrefix(current_test.subtests, Last(results').subtests)
          ELSE /\ results' = results
               /\ IsPrefix(current_test.subtests, current_test'.subtests)

\* C8: pipeline A: with a suite open and no subtest open, a line holding
\* SKIPPED that is neither a subtest start nor an abort line appends exactly
\* one subtest to the current suite (id "Test 1 of 1", description "Skipped
\* test", SKIPPED = 1, the other counters 0, one skip reason and no other
\* reason) and leaves no subtest open; subtests already listed in the open
\* suite are never changed by later lines, also not when the suite is closed.
C8_OrphanSkipped == [][C8_Step]_vars

C8_Witness ==
    /\ pcA = "scan"
    /\ lineA = "SKIPPED: no table\n"
    /\ current_subtest = None
    /\ current_test # None
    /\ Len(current_test.subtests) = 2
    /\ Last(current_test.subtests).sub_Test_Description = "Skipped test"
    /\ Last(current_test.subtests).sub_test_result.skip_reasons = <<"no table">>

\* ---- C9
AbortedSynth(line) ==
    [sub_Test_Number |-> "Test 1 of 1",
     sub_Test_Description |-> "Aborted test",
     sub_test_result |->
        [PASSED |-> 0, FAILED |-> 0, ABORTED |-> 1, SKIPPED |-> 0, WARNINGS |-> 0,
         pass_reasons |-> <<>>, fail_reasons |-> <<>>,
         abort_reasons |-> <<Strip(line)>>,
         skip_reasons |-> <<>>, warning_reasons |-> <<>>]]

\* an abort line read with no subtest open leaves the synthesized subtest open
C9_Synthesizes(line) ==
    /\ pcA' = "scan"
    /\ current_subtest' = AbortedSynth(line)

\* an abort line read with a subtest open adds its reason to that subtest
C9_Appends(line) ==
    /\ pcA' = "scan"
    /\ current_subtest' =
          [current_subtest EXCEPT
              !.sub_test_result.abort_reasons = Append(@, Strip(line))]

C9_StepOriginal ==
    (ReadsLineA /\ IsAbortLine(lineA') /\ current_subtest = None)
        => C9_Synthesizes(lineA')

C9_StepAmended ==
    /\ (/\ ReadsLineA
        /\ IsAbortLine(lineA')
        /\ ~SubtestMatch(lineA').ok
        /\ current_subtest = None)
       => C9_Synthesizes(lineA')
    /\ (/\ ReadsLineA
        /\ IsAbortLine(lineA')
        /\ ~SubtestMatch(lineA').ok
        /\ ~IsSuiteStart(lineA')
        /\ current_subtest # None)
       => C9_Appends(lineA')

\* C9 as stated: every line holding "Aborted" or "ABORTED" that is read while
\* no subtest is open leaves open a synthesized subtest "Test 1 of 1",
\* "Aborted test", ABORTED = 1, whose only abort reason is the stripped line.
C9_AbortSynthesizesAnyLine == [][C9_StepOriginal]_vars

\* C9 amended: the same for every such line that is not a subtest-start line
\* (`Test K of M: ...`); and such a line that starts no suite either, read
\* while a subtest is open, appends its stripped text to that subtest's abort
\* reasons and synthesizes nothing.
C9_AbortSynthesizes == [][C9_StepAmended]_vars

C9_Witness ==
    /\ pcA = "scan"
    /\ current_subtest # None
    /\ current_subtest.sub_Test_Number = "Test 1 of 1"
    /\ current_subtest.sub_Test_Description = "Aborted test"
    /\ current_subtest.sub_test_result.ABORTED = 1
    /\ current_subtest.sub_test_result.abort_reasons
          = <<"Aborted early", "Test ABORTED: out of memory">>

\* ---- C10
C10_Fresh == NewSubtest("1 of 3", "Check ACPI Tables", 0, 0)

C10_Passed ==
    [C10_Fresh EXCEPT !.sub_test_result.PASSED = 1,
                      !.sub_test_result.pass_reasons = <<"Table found">>]

C10_Step ==
    /\ (/\ ReadsLineA
        /\ current_test # None
        /\ lineA' = "Test 1 of 3: Check ACPI Tables\n")
       => current_subtest' = C10_Fresh
    /\ (/\ ReadsLineA
        /\ current_test # None
        /\ current_subtest = C10_Fresh
        /\ lineA' = "PASSED: Table found\n")
       => current_subtest' = C10_Passed
    /\ (/\ ReadsLineA
        /\ current_test # None
        /\ current_subtest = C10_Passed
        /\ IsSuiteStart(lineA'))
       => /\ results' = Append(results, Last(results'))
          /\ Last(results').Test_suite = current_test.Test_suite
          /\ Last(results').subtests = Append(current_test.subtests, C10_Passed)
          /\ SuiteTotalsAreSums(Last(results'))
          /\ Last(results').test_suite_summary.total_PASSED >= 1
          /\ current_test' # None
          /\ \A i \in 1..Len(current_test'.subtests) :
                current_test'.subtests[i] # C10_Passed
          /\ current_subtest' # C10_Passed

\* C10: pipeline A: with a suite open, `Test 1 of 3: Check ACPI Tables` opens
\* the subtest "1 of 3", `PASSED: Table found` makes it PASSED = 1 with
\* pass_reasons = <<"Table found">>, and the next suite-start line appends it
\* to the suite it was opened in, counted in that suite's summary, before the
\* new suite is opened; the new suite does not hold it.
C10_FlushBeforeNextSuite == [][C10_Step]_vars

C10_Witness ==
    /\ pcA = "scan"
    /\ lineA = "uefi: UEFI runtime tests\n"
    /\ Len(results) = 1
    /\ results[1].Test_suite = "acpi"
    /\ results[1].subtests = <<C10_Passed>>
    /\ results[1].test_suite_summary.total_PASSED = 1
    /\ current_test # None
    /\ current_test.Test_suite = "uefi"
    /\ current_test.subtests = <<>>
    /\ current_subtest = None

\* an iteration of pipeline B's scan has just read lineB'
ReadsLineB == pcB = "scan" /\ nB' # nB

\* the subtests filed under a suite so far
SuiteEntries(data, suite) == DictGet(data, suite, <<>>)

\* the step files exactly one subtest, entry, under suite
FilesOne(suite, entry) ==
    result_data' = DictSet(result_data, suite,
                           Append(SuiteEntries(result_data, suite), entry))

\* ---- C11
\* the legacy subtest "12" is pending, opened by `12 : Verify PE Register`
C11_Pending ==
    /\ processing
    /\ in_test
    /\ test_number = "12"
    /\ test_name = "Verify PE Register"

C11_Entry ==
    [sub_Test_Number |-> "12",
     sub_Test_Description |-> "Verify PE Register",
     sub_test_result |-> "FAILED"]

\* the opening line, then the line between it and the Result line
C11_Opens ==
    (ReadsLineB /\ processing /\ lineB' = "[ 0.5]  12 : Verify PE Register")
        => (C11_Pending /\ test_description = "" /\ rules = "")'

\* the third line closes the subtest that the first two lines left pending
C11_Closes(middle, entry) ==
    (/\ ReadsLineB
     /\ C11_Pending
     /\ lineB = middle
     /\ Len(rules) + Len(test_description) = Len(middle)
     /\ ~Seen(StateB, suite_name, "12")
     /\ lineB' = ": Result: FAIL")
        => FilesOne(suite_name, entry)

C11_StepOriginal ==
    C11_Closes("Mandatory", C11_Entry @@ ("RULES FAILED" :> "Mandatory"))

C11_StepAmended ==
    /\ C11_Opens
    /\ (/\ ReadsLineB
        /\ C11_Pending /\ test_description = "" /\ rules = ""
        /\ lineB' = "Mandatory")
       => (C11_Pending /\ test_description = "Mandatory" /\ rules = "")'
    /\ (/\ ReadsLineB
        /\ C11_Pending /\ test_description = "" /\ rules = ""
        /\ lineB' = "B_PE_01, B_PE_02")
       => (C11_Pending /\ test_description = "" /\ rules = "B_PE_01, B_PE_02")'
    /\ C11_Closes("Mandatory", C11_Entry)
    /\ C11_Closes("B_PE_01, B_PE_02",
                  C11_Entry @@ ("RULES FAILED" :> "B_PE_01, B_PE_02"))

\* C11 as stated: with processing on, the lines `12 : Verify PE Register`,
\* `Mandatory`, `: Result: FAIL` file exactly one subtest: id "12",
\* description "Verify PE Register", result "FAILED", "RULES FAILED" equal to
\* "Mandatory".
C11_MandatoryIsRule == [][C11_StepOriginal]_vars

\* C11 amended: the three lines file exactly one subtest with id "12",
\* description "Verify PE Register", result "FAILED" and no "RULES FAILED"
\* field, `Mandatory` being description text; with the rule line
\* `B_PE_01, B_PE_02` in its place the subtest carries "RULES FAILED" equal to
\* "B_PE_01, B_PE_02".
C11_LegacyScenario == [][C11_StepAmended]_vars

C11_Witness ==
    /\ pcB = "scan"
    /\ nB = 4
    /\ lineB = ": Result: FAIL"
    /\ ~in_test
    /\ DictHas(result_data, "PE")
    /\ SuiteEntries(result_data, "PE") = <<C11_Entry>>
    /\ suite_summary["Failed"] = 1

\* ---- C12
\* the suite and description an END line for id resolves to
EndSuite(id) ==
    IF DictHas(active_tests, id) THEN DictGet(active_tests, id, None).suite
    ELSE suite_name

EndDesc(id) ==
    IF DictHas(active_tests, id) THEN DictGet(active_tests, id, None).desc ELSE ""

\* how many subtests of a list carry one of the results
CountResults(subtests, wanted) ==
    Cardinality({i \in 1..Len(subtests) : subtests[i].sub_test_result \in wanted})

C12_Step ==
    (/\ ReadsLineB
     /\ lineB' = "END B_PE_01 PASSED (PARTIAL)"
     /\ ~Seen(StateB, EndSuite("B_PE_01"), "B_PE_01"))
    => /\ FilesOne(EndSuite("B_PE_01"),
                   [sub_Test_Number |-> "B_PE_01",
                    sub_Test_Description |-> EndDesc("B_PE_01"),
                    sub_test_result |-> "PASSED(*PARTIAL)",
                    raw_status |-> "PASSED (PARTIAL)"])
       /\ suite_summary' = [suite_summary EXCEPT !["Passed (Partial)"] = @ + 1]

\* in the output a suite's partial passes are counted under Passed (Partial)
\* and under no primary bucket
C12_Suites ==
    pcB = "done" =>
        \A i \in 1..Len(formatted_result.test_results) :
            LET t == formatted_result.test_results[i]
                s == t.test_suite_summary
            IN  /\ s["Passed (Partial)"] = CountResults(t.subtests, {"PASSED(*PARTIAL)"})
                /\ s["Passed"] = CountResults(t.subtests, {"PASSED"})
                /\ s["Failed"] = CountResults(t.subtests, {"FAILED"})
                /\ s["Skipped"] = CountResults(t.subtests, {"SKIPPED"})
                /\ s["Warnings"] = CountResults(t.subtests, {"ABORTED", "WARNING", "STATUS"})
                /\ s["total_failed_with_waiver"]
                      = CountResults(t.subtests, {"FAILED_WITH_WAIVER"})

\* C12: pipeline B: an accepted `END B_PE_01 PASSED (PARTIAL)` is stored as one
\* subtest with sub_test_result "PASSED(*PARTIAL)", adds one to "Passed
\* (Partial)" of the run summary and changes no other bucket of it, and in the
\* output its suite's summary counts it under "Passed (Partial)" and under
\* none of Passed, Failed, Skipped, Warnings, total_failed_with_waiver.
C12_PassedPartial == [][C12_Step]_vars /\ []C12_Suites

C12_Witness ==
    /\ pcB = "done"
    /\ formatted_result.suite_summary["Passed (Partial)"] = 1
    /\ \E i \in 1..Len(formatted_result.test_results) :
          LET t == formatted_result.test_results[i]
          IN  /\ t.Test_suite = "PE"
              /\ Len(t.subtests) = 2
              /\ t.subtests[2].sub_test_result = "PASSED(*PARTIAL)"
              /\ t.subtests[2].sub_Test_Description = "Check PE"
              /\ t.test_suite_summary["Passed (Partial)"] = 1

\* ---- C13
\* END lines, the id and status text of each, the class the ordered rules
\* give it and the result text to store
C13_Cases ==
    { [line |-> "END T1 PASSED (PARTIAL)", id |-> "T1",
       status |-> "PASSED (PARTIAL)",
       class |-> "PASSED_PARTIAL", stored |-> "PASSED(*PARTIAL)"],
      [line |-> "END T2 not tested (PAL NOT SUPPORTED)", id |-> "T2",
       status |-> "not tested (PAL NOT SUPPORTED)",
       class |-> "PAL_NOT_SUPPORTED", stored |-> "not tested (PAL NOT SUPPORTED)"],
      [line |-> "END T3 Not Tested (NOT IMPLEMENTED): FAILED", id |-> "T3",
       status |-> "Not Tested (NOT IMPLEMENTED): FAILED",
       class |-> "NOT_IMPLEMENTED", stored |-> "Not Tested (NOT IMPLEMENTED): FAILED"],
      [line |-> "END T4 PASSED, 2 SKIPPED", id |-> "T4",
       status |-> "PASSED, 2 SKIPPED",
       class |-> "PASSED", stored |-> "PASSED"],
      [line |-> "END T5 FAILED NOT IMPLEMENTED", id |-> "T5",
       status |-> "FAILED NOT IMPLEMENTED",
       class |-> "FAILED", stored |-> "FAILED"],
      [line |-> "END T6 STATUS: FAILED", id |-> "T6",
       status |-> "STATUS: FAILED",
       class |-> "FAILED", stored |-> "FAILED"],
      [line |-> "END T7 skipped", id |-> "T7",
       status |-> "skipped",
       class |-> "SKIPPED", stored |-> "SKIPPED"],
      [line |-> "END T8 Status: done", id |-> "T8",
       status |-> "Status: done",
       class |-> "STATUS", stored |-> "STATUS"],
      [line |-> "END T9 ABORTED", id |-> "T9",
       status |-> "ABORTED",
       class |-> "ABORTED", stored |-> "ABORTED"],
      [line |-> "END T10 skipped (PAL NOT SUPPORTED)", id |-> "T10",
       status |-> "skipped (PAL NOT SUPPORTED)",
       class |-> "SKIPPED", stored |-> "SKIPPED"] }

C13_Step ==
    \A c \in C13_Cases :
        (/\ ReadsLineB
         /\ lineB' = c.line
         /\ ~Seen(StateB, EndSuite(c.id), c.id))
        => /\ LexedClassB[c.line].end_match_new.norm_res = c.class
           /\ FilesOne(EndSuite(c.id),
                       [sub_Test_Number |-> c.id,
                        sub_Test_Description |-> EndDesc(c.id),
                        sub_test_result |-> c.stored,
                        raw_status |-> c.status])

\* C13: pipeline B: an END status text is classified, on its upper-cased
\* form, by the first rule that matches in the order PASSED and PARTIAL,
\* NOT TESTED and PAL NOT SUPPORTED, NOT TESTED and NOT IMPLEMENTED, PASSED,
\* FAILED, SKIPPED, starts with "STATUS:", else the raw text; the accepted
\* subtest stores the raw status for the two NOT TESTED classes,
\* "PASSED(*PARTIAL)" for PASSED_PARTIAL and the class label otherwise.
C13_StatusClassification == [][C13_Step]_vars

\* a status that matches the NOT IMPLEMENTED rule and the FAILED rule, and one
\* that matches the PASSED rule and the SKIPPED rule, have both been stored
C13_Witness ==
    /\ nB = 3
    /\ lineB = "END T4 PASSED, 2 SKIPPED"
    /\ Len(SuiteEntries(result_data, "")) = 3
    /\ SuiteEntries(result_data, "")[1].sub_test_result = "PASSED(*PARTIAL)"
    /\ SuiteEntries(result_data, "")[2].sub_test_result
          = "Not Tested (NOT IMPLEMENTED): FAILED"
    /\ SuiteEntries(result_data, "")[3].sub_test_result = "PASSED"

\* ---- C14
\* the outcome keywords in priority order, with the counter and the reason
\* list of each
C14_Keywords ==
    << [word |-> "PASSED",  counter |-> "PASSED",   reasons |-> "pass_reasons"],
       [word |-> "FAILED",  counter |-> "FAILED",   reasons |-> "fail_reasons"],
       [word |-> "SKIPPED", counter |-> "SKIPPED",  reasons |-> "skip_reasons"],
       [word |-> "WARNING", counter |-> "WARNINGS", reasons |-> "warning_reasons"] >>

\* the positions of the keywords the line holds
C14_Present(line) == {k \in 1..4 : In(C14_Keywords[k].word, line)}

\* new is old with one counter raised by one and one reason added to its list
C14_CountedOnce(old, new, k) ==
    LET kw == C14_Keywords[k]
        r == old.sub_test_result
        n == new.sub_test_result
    IN  /\ Len(n[kw.reasons]) = Len(r[kw.reasons]) + 1
        /\ new = [old EXCEPT
                    !.sub_test_result[kw.counter] = @ + 1,
                    !.sub_test_result[kw.reasons] = Append(@, Last(n[kw.reasons]))]

C14_FourCounters(sub) ==
    << sub.sub_test_result.PASSED, sub.sub_test_result.FAILED,
       sub.sub_test_result.SKIPPED, sub.sub_test_result.WARNINGS >>

C14_Step ==
    (ReadsLineA /\ current_subtest # None /\ pcA' = "scan")
    => IF SubtestMatch(lineA').ok
       THEN \* the open subtest is closed as it is
            current_test # None
                => current_test'.subtests
                       = Append(current_test.subtests, current_subtest)
       ELSE IF IsSuiteStart(lineA')
       THEN current_test # None
                => Last(Last(results').subtests) = current_subtest
       ELSE IF IsAbortLine(lineA')
       THEN /\ current_subtest' # None
            /\ C14_FourCounters(current_subtest') = C14_FourCounters(current_subtest)
       ELSE IF C14_Present(lineA') = {}
       THEN current_subtest' = current_subtest
       ELSE C14_CountedOnce(current_subtest, current_subtest',
                            Min(C14_Present(lineA')))

\* C14: pipeline A: while a subtest is open, a line that is neither a suite
\* start, a subtest start nor an abort line raises exactly one of PASSED,
\* FAILED, SKIPPED, WARNINGS of that subtest by one, the one of the first
\* keyword it holds in the order PASSED, FAILED, SKIPPED, WARNING, and appends
\* exactly one reason to the matching list (nothing changes when it holds no
\* keyword); a subtest-start, suite-start or abort line raises none of the
\* four counters of the open subtest.
C14_FirstKeywordWins == [][C14_Step]_vars

\* a line holding WARNING and PASSED was counted as PASSED only
C14_Witness ==
    /\ pcA = "scan"
    /\ lineA = "WARNING: Test 1, PASSED earlier\n"
    /\ current_subtest # None
    /\ current_subtest.sub_Test_Number = "1 of 3"
    /\ current_subtest.sub_test_result.PASSED = 1
    /\ current_subtest.sub_test_result.WARNINGS = 0
    /\ current_subtest.sub_test_result.pass_reasons = <<"No specific reason">>
    /\ current_subtest.sub_test_result.warning_reasons = <<>>

\* ---- C15
\* the END lines of LinesB: id, status text and the result text stored
EndLinesB ==
    { [line |-> "END B_PE_01 PASSED (PARTIAL)", id |-> "B_PE_01",
       status |-> "PASSED (PARTIAL)", stored |-> "PASSED(*PARTIAL)"],
      [line |-> "END B_PE_01 FAILED NOT IMPLEMENTED", id |-> "B_PE_01",
       status |-> "FAILED NOT IMPLEMENTED", stored |-> "FAILED"],
      [line |-> "END 12 not tested (PAL NOT SUPPORTED)", id |-> "12",
       status |-> "not tested (PAL NOT SUPPORTED)",
       stored |-> "not tested (PAL NOT SUPPORTED)"],
      [line |-> "END 12 ABORTED", id |-> "12",
       status |-> "ABORTED", stored |-> "ABORTED"],
      [line |-> "END 12 STATUS: done", id |-> "12",
       status |-> "STATUS: done", stored |-> "STATUS"] }

\* the subtest an END line records when its id has no active entry
C15_Entry(c) ==
    [sub_Test_Number |-> c.id,
     sub_Test_Description |-> "",
     sub_test_result |-> c.stored,
     raw_status |-> c.status]

\* an END line is read whose id is not in the active-tests table
C15_ReadsUnknownEnd(c) ==
    /\ ReadsLineB
    /\ lineB' = c.line
    /\ ~DictHas(active_tests, c.id)

C15_StepOriginal ==
    \A c \in EndLinesB :
        (C15_ReadsUnknownEnd(c) /\ ~Seen(StateB, "", c.id))
            => FilesOne("", C15_Entry(c))

C15_StepAmended ==
    \A c \in EndLinesB :
        C15_ReadsUnknownEnd(c)
            => /\ pcB' = "scan"
               /\ active_tests' = active_tests
               /\ IF Seen(StateB, suite_name, c.id)
                  THEN result_data' = result_data
                  ELSE FilesOne(suite_name, C15_Entry(c))

\* C15 as stated: an END line whose id has no entry in the active-tests table
\* is recorded with an empty suite name and an empty description.
C15_UnknownEndUnderEmptySuite == [][C15_StepOriginal]_vars

\* C15 amended: an END line whose id has no entry in the active-tests table
\* is not an error; its subtest is recorded under the current suite_name
\* (which is empty only while no banner or START has set a suite) with an
\* empty description, unless that suite already holds the id.
C15_UnknownEndUnderCurrentSuite == [][C15_StepAmended]_vars

C15_Witness ==
    /\ lineB = "END 12 ABORTED"
    /\ suite_name = "PE"
    /\ active_tests = <<>>
    /\ SuiteEntries(result_data, "PE") = <<C15_Entry(
          [line |-> "END 12 ABORTED", id |-> "12",
           status |-> "ABORTED", stored |-> "ABORTED"])>>

\* ---- C16
\* the START lines of LinesB: suite token, id and description
StartLinesB ==
    { [line |-> "START - B_PE_01 : Check PE", token |-> "-",
       id |-> "B_PE_01", desc |-> "Check PE"],
      [line |-> "START GIC 12 : Check GIC", token |-> "GIC",
       id |-> "12", desc |-> "Check GIC"] }

\* the subtest the END line c records for a test registered with description desc
C16_Entry(c, desc) ==
    [sub_Test_Number |-> c.id,
     sub_Test_Description |-> desc,
     sub_test_result |-> c.stored,
     raw_status |-> c.status]

\* a START registers the effective suite and the description under the id
C16_Registers ==
    \A s \in StartLinesB :
        (ReadsLineB /\ lineB' = s.line)
        => LET effective == IF s.token = "-" THEN suite_name ELSE s.token
           IN  /\ DictHas(active_tests', s.id)
               /\ DictGet(active_tests', s.id, None)
                     = [suite |-> effective, desc |-> s.desc]
               /\ suite_name' = effective

\* lines that neither START nor END the id leave its entry as registered
C16_Keeps ==
    \A id \in {"B_PE_01", "12"} :
        (/\ ReadsLineB
         /\ DictHas(active_tests, id)
         /\ \A s \in StartLinesB : s.id = id => lineB' # s.line
         /\ \A c \in EndLinesB : c.id = id => lineB' # c.line)
        => /\ DictHas(active_tests', id)
           /\ DictGet(active_tests', id, None) = DictGet(active_tests, id, None)

\* the END of a registered test removes its entry and no other
C16_Removes(c) ==
    /\ ~DictHas(active_tests', c.id)
    /\ active_tests' = DictDel(active_tests, c.id)

C16_StepOriginal ==
    \A c \in EndLinesB :
        (ReadsLineB /\ lineB' = c.line /\ DictHas(active_tests, c.id))
        => LET meta == DictGet(active_tests, c.id, None)
           IN  /\ FilesOne(meta.suite, C16_Entry(c, meta.desc))
               /\ C16_Removes(c)

C16_StepAmended ==
    /\ C16_Registers
    /\ C16_Keeps
    /\ \A c \in EndLinesB :
          (ReadsLineB /\ lineB' = c.line /\ DictHas(active_tests, c.id))
          => LET meta == DictGet(active_tests, c.id, None)
             IN  /\ IF c.id \in DictGet(test_numbers_per_suite, meta.suite, {})
                    THEN result_data' = result_data
                    ELSE FilesOne(meta.suite, C16_Entry(c, meta.desc))
                 /\ C16_Removes(c)

\* C16 as stated: the END of a started test files the subtest under the suite
\* recorded at START time and removes the active entry, whatever lines were
\* read between the START and the END.
C16_EndAlwaysFiles == [][C16_StepOriginal]_vars

\* C16 amended: a START registers the effective suite (the token, or the
\* current suite_name for `-`) and the description under its id; lines that
\* neither START nor END that id leave the entry untouched; the matching END
\* removes the entry and files the subtest under the recorded suite, unless
\* that suite already holds a subtest with the id, and then it records nothing.
C16_EndFilesUnderStartSuite == [][C16_StepAmended]_vars

\* started under PE, ended after the banner of another suite
C16_Witness ==
    /\ lineB = "END B_PE_01 PASSED (PARTIAL)"
    /\ suite_name = "GIC"
    /\ active_tests = <<>>
    /\ ~DictHas(result_data, "GIC")
    /\ SuiteEntries(result_data, "PE")
          = <<[sub_Test_Number |-> "B_PE_01",
               sub_Test_Description |-> "Check PE",
               sub_test_result |-> "PASSED(*PARTIAL)",
               raw_status |-> "PASSED (PARTIAL)"]>>

\* ---- C17
\* the lines of ClassLinesB that turn processing on
C17_Triggers ==
    { "Selected rules: all",
      "---------------------- Running tests ------------------------",
      "*** Starting PE tests ***",
      "START - T1 : Check one" }

C17_IsEnd(line) == \E c \in C13_Cases : c.line = line

C17_NothingRecorded ==
    /\ result_data' = result_data
    /\ suite_summary' = suite_summary

C17_StepOriginal ==
    (ReadsLineB /\ ~processing) => C17_NothingRecorded

C17_StepAmended ==
    /\ (ReadsLineB /\ ~processing /\ ~C17_IsEnd(lineB')) => C17_NothingRecorded
    /\ (ReadsLineB /\ ~processing) => (processing' <=> lineB' \in C17_Triggers)
    /\ processing => processing'

\* C17 as stated: while processing is false no line that is read, END lines
\* included, records a subtest or changes a summary bucket.
C17_NothingBeforeProcessing == [][C17_StepOriginal]_vars

\* C17 amended: while processing is false no line other than an END line
\* records a subtest or changes a summary bucket (END lines are handled
\* whether processing is on or not); processing becomes true exactly on a
\* START line, the Running-tests banner, "Selected rules:" or a `*** Starting`
\* banner, and once true it stays true, also across file boundaries.
C17_LegacyGatedByProcessing == [][C17_StepAmended]_vars

\* processing was turned on in the first file and a legacy subtest was
\* recorded in the second
C17_Witness ==
    /\ fileB = 2
    /\ processing
    /\ nB = 3
    /\ lineB = "2 : Check two : Result: FAIL"
    /\ SuiteEntries(result_data, "")
          = <<[sub_Test_Number |-> "2", sub_Test_Description |-> "Check two",
               sub_test_result |-> "FAILED"]>>
    /\ suite_summary["Failed"] = 1

\* ---- C18
\* the banners of LinesB and the suite each one names
BannerLinesB ==
    { [line |-> "*** Starting PE tests ***", suite |-> "PE"],
      [line |-> "*** Starting GICv2m tests ***", suite |-> "GIC"] }

C18_ResultLines == {": Result: FAIL", ": Result: SKIPPED"}

C18_Step ==
    /\ \A b \in BannerLinesB :
          (ReadsLineB /\ lineB' = b.line)
          => /\ suite_name' = b.suite
             /\ processing'
             /\ ~in_test'
             /\ result_data' = result_data
             /\ suite_summary' = suite_summary
    \* with no subtest pending a Result line records nothing
    /\ (ReadsLineB /\ ~in_test /\ lineB' \in C18_ResultLines)
       => /\ result_data' = result_data
          /\ suite_summary' = suite_summary
          /\ ~in_test'
    \* only a bare numbered line makes a subtest pending
    /\ (~in_test /\ in_test') => lineB' = "[ 0.5]  12 : Verify PE Register"

\* C18: pipeline B: a `*** Starting <Suite> tests ***` banner sets suite_name
\* to <Suite> (GIC for GICv2m), turns processing on and abandons a pending
\* legacy subtest: until a numbered line opens a subtest again, a `: Result:`
\* line records nothing and changes no bucket.
C18_BannerAbandonsPending == [][C18_Step]_vars

\* "12" was pending when the GICv2m banner came; the Result line found nothing
C18_Witness ==
    /\ lineB = ": Result: FAIL"
    /\ processing
    /\ ~in_test
    /\ test_number = "12"
    /\ suite_name = "GIC"
    /\ result_data = <<>>
    /\ suite_summary = ZeroSummaryB

\* ---- C19
\* the one-line legacy subtests of ClassLinesB: number, text, the result to
\* record and the bucket to raise ("" for none)
C19_Cases ==
    { [line |-> "1 : Check one : Result: PASS", id |-> "1", name |-> "Check one",
       stored |-> "PASSED", bucket |-> "Passed"],
      [line |-> "2 : Check two : Result: FAIL", id |-> "2", name |-> "Check two",
       stored |-> "FAILED", bucket |-> "Failed"],
      [line |-> "3 : Check three : Result: SKIPPED", id |-> "3", name |-> "Check three",
       stored |-> "SKIPPED", bucket |-> "Skipped"],
      [line |-> "4 : Check four : Result: ABORTED", id |-> "4", name |-> "Check four",
       stored |-> "ABORTED", bucket |-> "Warnings"],
      [line |-> "5 : Check five : Result: WARNING", id |-> "5", name |-> "Check five",
       stored |-> "WARNING", bucket |-> "Warnings"],
      [line |-> "6 : Check six : Result: FAILED_WITH_WAIVER", id |-> "6",
       name |-> "Check six",
       stored |-> "FAILED_WITH_WAIVER", bucket |-> "total_failed_with_waiver"],
      [line |-> "7 : Check seven : Result: TIMEOUT", id |-> "7", name |-> "Check seven",
       stored |-> "TIMEOUT", bucket |-> ""],
      [line |-> "8 : Check eight : Result: PASSED", id |-> "8", name |-> "Check eight",
       stored |-> "PASSED", bucket |-> "Passed"] }

C19_Step ==
    \A c \in C19_Cases :
        (/\ ReadsLineB
         /\ processing
         /\ lineB' = c.line
         /\ ~Seen(StateB, suite_name, c.id))
        => /\ FilesOne(suite_name,
                       [sub_Test_Number |-> c.id,
                        sub_Test_Description |-> c.name,
                        sub_test_result |-> c.stored])
           /\ suite_summary' =
                 IF c.bucket = "" THEN suite_summary
                 ELSE [suite_summary EXCEPT ![c.bucket] = @ + 1]

C19_Primary(summary) ==
    summary["Passed"] + summary["Failed"] + summary["Skipped"]
    + summary["Warnings"] + summary["total_failed_with_waiver"]

RECURSIVE C19_Recorded(_)
C19_Recorded(data) ==
    IF data = <<>> THEN 0 ELSE Len(Head(data).val) + C19_Recorded(Tail(data))

\* C19: pipeline B: an accepted legacy one-line subtest is recorded with
\* PASSED for PASS, FAILED for FAIL, SKIPPED for SKIPPED and the word itself
\* otherwise, and raises exactly one bucket of the run summary: only
\* total_failed_with_waiver for a result holding FAILED and WAIVER, the
\* like-named bucket for PASSED, FAILED, SKIPPED, Warnings for ABORTED and
\* WARNING, none for any other word; the primary buckets never add up to more
\* than the subtests recorded.
C19_LegacyResultBuckets ==
    [][C19_Step]_vars /\ [](C19_Primary(suite_summary) <= C19_Recorded(result_data))

C19_Witness ==
    /\ nB = 3
    /\ lineB = "6 : Check six : Result: FAILED_WITH_WAIVER"
    /\ Len(SuiteEntries(result_data, "")) = 2
    /\ SuiteEntries(result_data, "")[1].sub_test_result = "FAILED"
    /\ SuiteEntries(result_data, "")[2].sub_test_result = "FAILED_WITH_WAIVER"
    /\ suite_summary["Failed"] = 1
    /\ suite_summary["total_failed_with_waiver"] = 1

\* ---- C20
\* the numbered lines of RulesLinesB
C20_Openers ==
    { [line |-> "9 : Check nine", id |-> "9", name |-> "Check nine"],
      [line |-> "10 : Check ten", id |-> "10", name |-> "Check ten"] }

\* the Result lines of RulesLinesB, the result each records and the field
\* that takes the rules ("" for none)
C20_Closers ==
    { [line |-> ": Result: FAIL", stored |-> "FAILED", field |-> "RULES FAILED"],
      [line |-> ": Result: SKIPPED", stored |-> "SKIPPED", field |-> "RULES SKIPPED"],
      [line |-> ": Result: PASS", stored |-> "PASSED", field |-> ""] }

\* the subtest a Result line records for the pending subtest
C20_Entry(c) ==
    LET base == [sub_Test_Number |-> test_number,
                 sub_Test_Description |-> test_name,
                 sub_test_result |-> c.stored]
    IN  IF c.field # "" /\ rules # "" THEN base @@ (c.field :> rules) ELSE base

C20_Step ==
    \* an opening line starts with no rules
    /\ \A o \in C20_Openers :
          (ReadsLineB /\ processing /\ lineB' = o.line)
          => /\ in_test'
             /\ test_number' = o.id
             /\ test_name' = o.name
             /\ rules' = ""
    \* a rule line read while a subtest is pending is joined to its rules
    /\ (ReadsLineB /\ processing /\ in_test /\ lineB' \in {"R_01, R_02", "R_03"})
       => /\ rules' = IF rules = "" THEN lineB' ELSE rules \o " " \o lineB'
          /\ in_test'
          /\ test_number' = test_number
          /\ result_data' = result_data
    \* rules are gathered only while a subtest is pending
    /\ (ReadsLineB /\ ~in_test /\ ~in_test') => rules' = rules
    \* the Result line attaches them or drops them, and clears them
    /\ \A c \in C20_Closers :
          (ReadsLineB /\ processing /\ in_test /\ lineB' = c.line)
          => /\ ~in_test'
             /\ IF Seen(StateB, suite_name, test_number)
                THEN result_data' = result_data
                ELSE FilesOne(suite_name, C20_Entry(c)) /\ rules' = ""

\* C20: pipeline B: the rule lines read between a pending legacy subtest's
\* opening line and its `: Result:` line are joined with single spaces, in
\* order; the Result line attaches them as "RULES FAILED" iff the result is
\* FAILED and they are non-empty, as "RULES SKIPPED" iff it is SKIPPED and
\* they are non-empty, and under no field otherwise; every opening line
\* starts from empty rules, so none reach a later subtest.
C20_RulesAttached == [][C20_Step]_vars

C20_Witness ==
    /\ lineB = ": Result: FAIL"
    /\ ~in_test
    /\ rules = ""
    /\ SuiteEntries(result_data, "")
          = <<[sub_Test_Number |-> "9", sub_Test_Description |-> "Check nine",
               sub_test_result |-> "FAILED"]
              @@ ("RULES FAILED" :> "R_01, R_02 R_03")>>

\* ---- C21
\* the subtests the closing lines of the second file record
C21_Pending ==
    [sub_Test_Number |-> "13",
     sub_Test_Description |-> "Timer check",
     sub_test_result |-> "FAILED"]

C21_Ended ==
    [sub_Test_Number |-> "B_PE_01",
     sub_Test_Description |-> "Check PE",
     sub_test_result |-> "PASSED",
     raw_status |-> "PASSED"]

C21_Accepted ==
    [sub_Test_Number |-> "12",
     sub_Test_Description |-> "Verify PE Register",
     sub_test_result |-> "PASSED"]

\* opening the next file changes nothing of the parser's state
C21_Boundary == fileB' # fileB => StateB' = StateB /\ lineB' = lineB

\* a line of a later file is handled on the state the earlier file left
C21_Step ==
    /\ (/\ ReadsLineB /\ fileB > 1 /\ lineB' = ": Result: FAIL"
        /\ processing /\ in_test /\ test_number = "13" /\ rules = ""
        /\ "13" \notin DictGet(test_numbers_per_suite, suite_name, {}))
       => /\ FilesOne(suite_name, C21_Pending)
          /\ suite_summary' = Bump(suite_summary, "Failed")
          /\ ~in_test'
    /\ (/\ ReadsLineB /\ fileB > 1 /\ lineB' = "END B_PE_01 PASSED"
        /\ DictHas(active_tests, "B_PE_01")
        /\ "B_PE_01" \notin DictGet(test_numbers_per_suite,
                                    EndSuite("B_PE_01"), {}))
       => /\ FilesOne(EndSuite("B_PE_01"), C21_Ended)
          /\ EndDesc("B_PE_01") = "Check PE"
          /\ suite_summary' = Bump(suite_summary, "Passed")
          /\ ~DictHas(active_tests', "B_PE_01")
    /\ (/\ ReadsLineB /\ fileB > 1
        /\ lineB' = "12 : Check waiver : Result: FAIL"
        /\ processing
        /\ "12" \in DictGet(test_numbers_per_suite, suite_name, {}))
       => /\ result_data' = result_data
          /\ suite_summary' = suite_summary
          /\ test_numbers_per_suite' = test_numbers_per_suite

\* C21: state is carried across file boundaries as if the files' lines were
\* concatenated: opening the next file leaves the whole parser state as it
\* was, so in a later file a `: Result:` line closes the legacy subtest a
\* numbered line of an earlier file left pending, an END is matched with the
\* START of an earlier file (its suite and description), and an id an earlier
\* file had accepted for the suite is dropped.
C21_StateCarriedAcrossFiles == [][C21_Boundary /\ C21_Step]_vars

\* the first file opened a START and a numbered line and accepted "12"; the
\* second closed both and dropped the second "12"
C21_Witness ==
    /\ fileB = 2
    /\ lineB = "12 : Check waiver : Result: FAIL"
    /\ active_tests = <<>>
    /\ ~in_test
    /\ result_data = <<[key |-> "PE",
                        val |-> <<C21_Accepted, C21_Ended, C21_Pending>>]>>
    /\ suite_summary["Passed"] = 2
    /\ suite_summary["Failed"] = 1

\* ---- C22
\* the legacy inline-result lines of LinesB and their ids
C22_InlineLines ==
    { [line |-> "12 : Verify PE Register : Result: PASS", id |-> "12"],
      [line |-> "12 : Check waiver : Result: FAILED_WITH_WAIVER", id |-> "12"],
      [line |-> "13 : Timer check : Result: ABORTED", id |-> "13"] }

\* the lines of LinesB that close a pending legacy subtest
C22_ResultLines == {": Result: FAIL", ": Result: SKIPPED"}

\* the ids a suite has accepted
C22_SeenIds(suite) == DictGet(test_numbers_per_suite, suite, {})

\* the line being read completes a (suite, id) pair that was accepted before
C22_Duplicate ==
    \/ \E c \in EndLinesB :
          lineB' = c.line /\ c.id \in C22_SeenIds(EndSuite(c.id))
    \/ \E c \in C22_InlineLines :
          lineB' = c.line /\ processing /\ c.id \in C22_SeenIds(suite_name)
    \/ /\ lineB' \in C22_ResultLines
       /\ processing /\ in_test /\ test_number \in C22_SeenIds(suite_name)

\* nothing is recorded, remembered or counted
C22_Frame ==
    /\ result_data' = result_data
    /\ test_numbers_per_suite' = test_numbers_per_suite
    /\ suite_summary' = suite_summary

\* C22: pipeline B: a modern END, a legacy inline-result line or a legacy
\* Result line closing a pending subtest that completes an already accepted
\* (suite, id) leaves every suite's subtest list, the seen-id sets and every
\* bucket of the run summary unchanged.
C22_DuplicateChangesNothing == [][(ReadsLineB /\ C22_Duplicate) => C22_Frame]_vars

\* "12" was accepted with an inline result, opened again by a numbered line
\* and the Result line that closes it was dropped
C22_Witness ==
    /\ lineB = ": Result: FAIL"
    /\ nB = 4
    /\ ~in_test
    /\ test_number = "12"
    /\ result_data = <<[key |-> "PE",
                        val |-> <<[sub_Test_Number |-> "12",
                                   sub_Test_Description |-> "Verify PE Register",
                                   sub_test_result |-> "PASSED"]>>]>>
    /\ test_numbers_per_suite = <<[key |-> "PE", val |-> {"12"}]>>
    /\ suite_summary = Bump(ZeroSummaryB, "Passed")

\* ---- C23
\* the END lines of ClassLinesB: the buckets of the run summary an accepted
\* END increments, the primary one and the raw-text ones
C23_Cases ==
    { [line |-> "END T1 PASSED (PARTIAL)", id |-> "T1",
       buckets |-> {"Passed (Partial)"}],
      [line |-> "END T2 not tested (PAL NOT SUPPORTED)", id |-> "T2",
       buckets |-> {"PAL Not Supported"}],
      [line |-> "END T3 Not Tested (NOT IMPLEMENTED): FAILED", id |-> "T3",
       buckets |-> {"Not Implemented"}],
      [line |-> "END T4 PASSED, 2 SKIPPED", id |-> "T4",
       buckets |-> {"Passed"}],
      [line |-> "END T5 FAILED NOT IMPLEMENTED", id |-> "T5",
       buckets |-> {"Failed", "Not Implemented"}],
      [line |-> "END T6 STATUS: FAILED", id |-> "T6",
       buckets |-> {"Failed"}],
      [line |-> "END T7 skipped", id |-> "T7",
       buckets |-> {"Skipped"}],
      [line |-> "END T8 Status: done", id |-> "T8",
       buckets |-> {"Warnings"}],
      [line |-> "END T9 ABORTED", id |-> "T9",
       buckets |-> {}],
      [line |-> "END T10 skipped (PAL NOT SUPPORTED)", id |-> "T10",
       buckets |-> {"Skipped", "PAL Not Supported"}] }

\* the raw-text buckets of the claim
C23_Overlay == {"PAL Not Supported", "Not Implemented"}

\* the subtests whose raw status holds the text of an overlay bucket
C23_Holds(key) ==
    {c.id : c \in {d \in C23_Cases : key \in d.buckets}}

\* an accepted END adds one to each of its buckets and to no other
C23_Step ==
    \A c \in C23_Cases :
        (/\ ReadsLineB
         /\ lineB' = c.line
         /\ c.id \notin DictGet(test_numbers_per_suite, EndSuite(c.id), {}))
        => \A key \in BucketKeys :
              suite_summary'[key]
                  = suite_summary[key] + (IF key \in c.buckets THEN 1 ELSE 0)

\* a summary with one in each of the buckets and their number as the total
C23_SummaryOf(buckets) ==
    [key \in BucketKeys |->
        IF key = "Total Rules Run" THEN Cardinality(buckets)
        ELSE IF key \in buckets THEN 1 ELSE 0]

\* in the output the overlay buckets of a suite count its subtests with that
\* raw text, the run's overlay buckets are the sums over the suites, and a
\* run that accepted one subtest with an overlay reports it alike, once per
\* bucket, in both summaries
C23_Output ==
    pcB = "done" =>
        LET out == formatted_result.test_results
        IN  /\ \A i \in 1..Len(out) : \A key \in C23_Overlay :
                  out[i].test_suite_summary[key]
                      = Cardinality({j \in 1..Len(out[i].subtests) :
                            out[i].subtests[j].sub_Test_Number
                                \in C23_Holds(key)})
            /\ \A key \in C23_Overlay :
                  formatted_result.suite_summary[key] = SumBucket(out, key)
            /\ \A c \in C23_Cases :
                  (/\ c.buckets \cap C23_Overlay # {}
                   /\ Len(out) = 1
                   /\ Len(out[1].subtests) = 1
                   /\ out[1].subtests[1].sub_Test_Number = c.id)
                  => /\ out[1].test_suite_summary = C23_SummaryOf(c.buckets)
                     /\ formatted_result.suite_summary
                            = C23_SummaryOf(c.buckets)

\* C23: pipeline B: an accepted modern subtest adds one to "PAL Not Supported"
\* when its raw status holds PAL NOT SUPPORTED and one to "Not Implemented"
\* when it holds NOT IMPLEMENTED, next to its primary bucket if it has one, so
\* status `FAILED NOT IMPLEMENTED` counts in Failed and in Not Implemented and
\* twice in Total Rules Run, alike in the run summary and in the suite summary.
C23_OverlayIsAdditive == []C23_Output /\ [][C23_Step]_vars

\* one subtest, two buckets, a total of two
C23_Witness ==
    /\ pcB = "done"
    /\ lineB = "END T5 FAILED NOT IMPLEMENTED"
    /\ Len(formatted_result.test_results) = 1
    /\ Len(formatted_result.test_results[1].subtests) = 1
    /\ formatted_result.suite_summary["Failed"] = 1
    /\ formatted_result.suite_summary["Not Implemented"] = 1
    /\ formatted_result.suite_summary["Total Rules Run"] = 2
    /\ formatted_result.test_results[1].test_suite_summary["Total Rules Run"] = 2

\* ---- C24
\* the suite-start lines of LinesA: the token, the description of the suite
\* they open and what the rest of the iteration leaves in the new suite
C24_Starts ==
    { [line |-> "acpi: ACPI table tests\n", token |-> "acpi",
       desc |-> "ACPI table tests", subtests |-> <<>>, open |-> None],
      [line |-> "uefi: UEFI runtime tests\n", token |-> "uefi",
       desc |-> "UEFI runtime tests", subtests |-> <<>>, open |-> None],
      [line |-> "acpi: SKIPPED: not supported\n", token |-> "acpi",
       desc |-> "SKIPPED: not supported",
       subtests |-> <<SkippedSynth(<<"not supported">>)>>, open |-> None],
      [line |-> "uefi: Aborted by user\n", token |-> "uefi",
       desc |-> "Aborted by user", subtests |-> <<>>,
       open |-> AbortedSynth("uefi: Aborted by user\n")] }

\* the token opened a suite earlier in the log
C24_OpenedBefore(token) ==
    \/ current_test # None /\ current_test.Test_suite = token
    \/ \E i \in 1..Len(results) : results[i].Test_suite = token

\* the open suite as it is flushed
C24_Flushed(entry) ==
    /\ entry.Test_suite = current_test.Test_suite
    /\ entry.Test_suite_Description = current_test.Test_suite_Description
    /\ entry.subtests = IF current_subtest # None
                        THEN Append(current_test.subtests, current_subtest)
                        ELSE current_test.subtests
    /\ SuiteTotalsAreSums(entry)

\* a suite-start line of a token seen before flushes the open suite behind
\* the flushed ones and opens a new, separate suite of that name
C24_Reopens ==
    \A s \in C24_Starts :
        (/\ ReadsLineA
         /\ lineA' = s.line
         /\ IsSuiteStart(s.line)
         /\ C24_OpenedBefore(s.token))
        => /\ IsPrefix(results, results')
           /\ IF current_test # None
              THEN /\ Len(results') = Len(results) + 1
                   /\ C24_Flushed(Last(results'))
              ELSE results' = results
           /\ current_test' =
                 [Test_suite |-> s.token,
                  Test_suite_Description |-> s.desc,
                  subtests |-> s.subtests,
                  test_suite_summary |-> ZeroSummaryA]
           /\ current_subtest' = s.open

\* a flushed suite is never changed, moved or removed
C24_Kept ==
    /\ IsPrefix(results, results')
    /\ (pcA = "scan" /\ pcA' = "done") => IsPrefix(results, retA'.test_results)

\* C24: pipeline A: a suite-start line whose token opened a suite earlier in
\* the log opens a second, separate suite of the same name: the open suite is
\* flushed with its own subtests and summary, the new suite starts empty, and
\* no later line changes a flushed suite.
C24_SameNameOpensSeparateSuite == [][C24_Reopens /\ C24_Kept]_vars

\* two suites named acpi in the result, each with its own subtest
C24_Witness ==
    /\ pcA = "done"
    /\ lineA = "acpi: SKIPPED: not supported\n"
    /\ Len(retA.test_results) = 2
    /\ retA.test_results[1].Test_suite = "acpi"
    /\ retA.test_results[1].Test_suite_Description = "ACPI table tests"
    /\ retA.test_results[1].subtests = <<C10_Passed>>
    /\ retA.test_results[1].test_suite_summary.total_PASSED = 1
    /\ retA.test_results[1].test_suite_summary.total_SKIPPED = 0
    /\ retA.test_results[2].Test_suite = "acpi"
    /\ retA.test_results[2].subtests = <<SkippedSynth(<<"not supported">>)>>
    /\ retA.test_results[2].test_suite_summary.total_PASSED = 0
    /\ retA.test_results[2].test_suite_summary.total_SKIPPED = 1

\* ---- C25
\* the subtests of a suite list in order, each with the position of its suite
C25_Ids(subtests, k) ==
    [i \in 1..Len(subtests) |->
        [suite |-> k,
         number |-> subtests[i].sub_Test_Number,
         description |-> subtests[i].sub_Test_Description]]

RECURSIVE C25_Flat(_, _)
C25_Flat(tests, k) ==
    IF tests = <<>> THEN <<>>
    ELSE C25_Ids(Head(tests).subtests, k) \o C25_Flat(Tail(tests), k + 1)

\* the subtests opened so far: those of the flushed suites, those of the open
\* suite and the open subtest, which belongs to the open suite (0: no suite)
C25_Held ==
    LET suites == IF current_test = None THEN results
                  ELSE Append(results, current_test)
    IN  C25_Flat(suites, 1)
        \o (IF current_subtest = None THEN <<>>
            ELSE <<[suite |-> IF current_test = None THEN 0 ELSE Len(suites),
                    number |-> current_subtest.sub_Test_Number,
                    description |-> current_subtest.sub_Test_Description]>>)

\* a line keeps the subtests opened before it, in order and in their suites,
\* and opens at most one; the result holds exactly the subtests opened
C25_Step ==
    /\ (pcA = "scan" /\ pcA' = "scan")
       => /\ IsPrefix(C25_Held, C25_Held')
          /\ Len(C25_Held') <= Len(C25_Held) + 1
    /\ (pcA = "scan" /\ pcA' = "done")
       => C25_Flat(retA'.test_results, 1) = C25_Held

\* C25: pipeline A: every subtest opened during the scan appears exactly once
\* in the final result, in opening order, in the suite that was current when
\* it was opened; none is lost at a suite-start line or at end of input and
\* none is appended twice.
C25_OpenedSubtestsAreKept == [][C25_Step]_vars

\* ---- C26
\* each of the four outcome counters is the length of its reason list
C26_CountsReasons(sub) ==
    LET r == sub.sub_test_result
    IN  /\ r.PASSED = Len(r.pass_reasons)
        /\ r.FAILED = Len(r.fail_reasons)
        /\ r.SKIPPED = Len(r.skip_reasons)
        /\ r.WARNINGS = Len(r.warning_reasons)

C26_AllCount(tests) ==
    \A i \in 1..Len(tests) : \A j \in 1..Len(tests[i].subtests) :
        C26_CountsReasons(tests[i].subtests[j])

\* C26: pipeline A: after any sequence of lines every subtest, flushed, listed
\* in the open suite, still open or returned in the result, has PASSED, FAILED,
\* SKIPPED and WARNINGS equal to the lengths of pass_reasons, fail_reasons,
\* skip_reasons and warning_reasons.
C26_CountersAreReasonCounts ==
    /\ C26_AllCount(results)
    /\ current_test # None => C26_AllCount(<<current_test>>)
    /\ current_subtest # None => C26_CountsReasons(current_subtest)
    /\ pcA = "done" => C26_AllCount(retA.test_results)

\* a returned subtest with two outcomes, one of them without reason text
C26_Witness ==
    /\ pcA = "done"
    /\ Len(retA.test_results) = 1
    /\ Len(retA.test_results[1].subtests) = 1
    /\ LET r == retA.test_results[1].subtests[1].sub_test_result
       IN  /\ r.PASSED = 1
           /\ r.pass_reasons = <<"Table found">>
           /\ r.FAILED = 1
           /\ r.fail_reasons = <<"No specific reason">>

\* ---- C27
\* a subtest that holds an abort reason counts at least one abort
C27_Counted(sub) ==
    sub.sub_test_result.abort_reasons # <<>> => sub.sub_test_result.ABORTED >= 1

C27_AllCounted(tests) ==
    \A i \in 1..Len(tests) : \A j \in 1..Len(tests[i].subtests) :
        C27_Counted(tests[i].subtests[j])

\* in the result, a subtest that holds an abort reason is counted in its
\* suite's total_ABORTED and its testcase has an <error> child
C27_Rendered ==
    LET out == retA.test_results
        xml == dict_to_junit_xml(retA).testsuites
    IN  \A i \in 1..Len(out) : \A j \in 1..Len(out[i].subtests) :
            out[i].subtests[j].sub_test_result.abort_reasons # <<>>
            => /\ out[i].test_suite_summary.total_ABORTED >= 1
               /\ xml[i].errors # "0"
               /\ \E k \in 1..Len(xml[i].testcases[j].children) :
                     xml[i].testcases[j].children[k].tag = "error"

\* C27: pipeline A: every subtest whose abort_reasons list is not empty has
\* ABORTED >= 1, so an abort line read inside an open subtest is counted in
\* the suite's total_ABORTED and rendered as an <error> child of its testcase.
C27_AbortReasonsAreCounted ==
    /\ C27_AllCounted(results)
    /\ current_test # None => C27_AllCounted(<<current_test>>)
    /\ current_subtest # None => C27_Counted(current_subtest)
    /\ pcA = "done" => C27_Rendered

\* ---- C28
\* the lines of LinesB that set the current suite
C28_SuiteLines ==
    {"START GIC 12 : Check GIC"} \cup {b.line : b \in BannerLinesB}

\* the step files one subtest with the id under the suite and nothing else
C28_FilesUnder(suite, id) ==
    LET old == SuiteEntries(result_data, suite)
        new == SuiteEntries(result_data', suite)
    IN  /\ Len(new) = Len(old) + 1
        /\ Last(new).sub_Test_Number = id
        /\ result_data' = DictSet(result_data, suite, Append(old, Last(new)))

C28_Step ==
    \* the token becomes the current suite of the run
    /\ (ReadsLineB /\ lineB' = "START GIC 12 : Check GIC")
       => suite_name' = "GIC"
    \* and stays until a START token or a banner
    /\ (ReadsLineB /\ lineB' \notin C28_SuiteLines)
       => suite_name' = suite_name
    \* a legacy subtest with an inline result
    /\ \A c \in C22_InlineLines :
          (/\ ReadsLineB /\ lineB' = c.line /\ processing
           /\ c.id \notin C22_SeenIds(suite_name))
          => C28_FilesUnder(suite_name, c.id)
    \* a pending legacy subtest
    /\ (/\ ReadsLineB /\ lineB' \in C22_ResultLines
        /\ processing /\ in_test
        /\ test_number \notin C22_SeenIds(suite_name))
       => C28_FilesUnder(suite_name, test_number)
    \* a START with token `-`
    /\ (ReadsLineB /\ lineB' = "START - B_PE_01 : Check PE")
       => /\ DictHas(active_tests', "B_PE_01")
          /\ DictGet(active_tests', "B_PE_01", None).suite = suite_name
    \* an END with no active entry
    /\ \A c \in EndLinesB :
          (/\ ReadsLineB /\ lineB' = c.line
           /\ ~DictHas(active_tests, c.id)
           /\ c.id \notin C22_SeenIds(suite_name))
          => C28_FilesUnder(suite_name, c.id)

\* C28: pipeline B: a START line with a suite token other than `-` makes the
\* token the current suite of the run; the current suite stays until another
\* START token or a `*** Starting` banner changes it, and legacy numbered
\* subtests, `START -` tests and END lines without an active entry are filed
\* under it.
C28_StartTokenSetsRunSuite == [][C28_Step]_vars

\* after `START GIC 12`, which is still open, a legacy subtest, a `START -`
\* test and its END were filed under GIC
C28_Witness ==
    /\ suite_name = "GIC"
    /\ lineB = "END B_PE_01 PASSED (PARTIAL)"
    /\ active_tests = <<[key |-> "12",
                         val |-> [suite |-> "GIC", desc |-> "Check GIC"]]>>
    /\ result_data =
          <<[key |-> "GIC",
             val |-> <<[sub_Test_Number |-> "13",
                        sub_Test_Description |-> "Timer check",
                        sub_test_result |-> "ABORTED"],
                       [sub_Test_Number |-> "B_PE_01",
                        sub_Test_Description |-> "Check PE",
                        sub_test_result |-> "PASSED(*PARTIAL)",
                        raw_status |-> "PASSED (PARTIAL)"]>>]>>

\* ---- C29
\* the `: Result:` lines of RulesLinesB
C29_ResultLines == {c.line : c \in C20_Closers}

\* nothing is recorded, remembered or counted
C29_NothingRecorded ==
    /\ result_data' = result_data
    /\ test_numbers_per_suite' = test_numbers_per_suite
    /\ suite_summary' = suite_summary

C29_Step ==
    \* a numbered line read while a subtest is pending takes its place
    /\ \A o \in C20_Openers :
          (ReadsLineB /\ processing /\ in_test /\ lineB' = o.line)
          => /\ C29_NothingRecorded
             /\ in_test'
             /\ test_number' = o.id
             /\ test_name' = o.name
             /\ test_description' = ""
             /\ rules' = ""
    \* no other step than a Result line records anything
    /\ (pcB = "scan" /\ pcB' = "scan" /\ lineB' \notin C29_ResultLines)
       => C29_NothingRecorded
    /\ (pcB = "scan" /\ pcB' = "scan" /\ ~ReadsLineB) => C29_NothingRecorded
    \* a Result line records the subtest pending when it is read, or nothing
    /\ (ReadsLineB /\ lineB' \in C29_ResultLines)
       => IF processing /\ in_test
             /\ test_number \notin DictGet(test_numbers_per_suite, suite_name, {})
          THEN /\ C28_FilesUnder(suite_name, test_number)
               /\ Last(SuiteEntries(result_data', suite_name)).sub_Test_Description
                     = test_name
          ELSE C29_NothingRecorded
    \* the output lists what was recorded; a subtest still pending is not in it
    /\ (pcB = "scan" /\ pcB' = "done")
       => /\ Len(formatted_result'.test_results) = Len(result_data)
          /\ \A i \in 1..Len(result_data) :
                /\ formatted_result'.test_results[i].Test_suite = result_data[i].key
                /\ formatted_result'.test_results[i].subtests = result_data[i].val
          /\ \A key \in BucketKeys \ {"Total Rules Run"} :
                formatted_result'.suite_summary[key] = suite_summary[key]

\* C29: pipeline B: a pending legacy subtest is recorded only by a later line
\* holding `: Result:`; a bare numbered line read first takes its place, and
\* the earlier subtest leaves no entry, no bucket change and no rules; a
\* subtest still pending at the end of the last file is not in the output.
C29_PendingNeedsResultLine == [][C29_Step]_vars

\* "10" was recorded by its Result line; "9", opened after it, is still
\* pending when the output is made and is not in it
C29_Witness ==
    /\ pcB = "done"
    /\ in_test
    /\ test_number = "9"
    /\ lineB = "9 : Check nine"
    /\ Len(formatted_result.test_results) = 1
    /\ formatted_result.test_results[1].subtests
          = <<[sub_Test_Number |-> "10", sub_Test_Description |-> "Check ten",
               sub_test_result |-> "FAILED"]>>
    /\ formatted_result.suite_summary["Failed"] = 1
    /\ formatted_result.suite_summary["Total Rules Run"] = 1

====
